---------------------------- MODULE Spec2Model ----------------------------
(***************************************************************************)
(* generate_map (src/utils.py): the map pipeline of zip_map.               *)
(*                                                                         *)
(* One run of generate_map is modelled stage by stage: normalise the ZIP   *)
(* column, left-merge the table onto the ZIP boundaries, capture the       *)
(* originally-unassigned mask, auto-fill by numeric ZIP distance, build    *)
(* the unassigned report, filter to the four extents, relocate AK/HI/PR,   *)
(* load and relocate the state boundaries, clip, classify the styles, draw *)
(* the ZIP groups, return (Spec).  ProcessSpec has several runs in one     *)
(* process, each taken by its reads of the reference data.                 *)
(*                                                                         *)
(* Representation.                                                         *)
(*  - A ZIP key is the sequence of its characters, each a digit 0..9.      *)
(*  - A cell of the value column is an integer code: NaN is the code of a  *)
(*    missing cell, Unassigned the code of the string "unassigned", and    *)
(*    the other codes are the table's own values.  In a table of kind      *)
(*    "int" the code k is the number k.  In a table of kind "str" the      *)
(*    codes follow the code-point order of the strings: a code k below     *)
(*    Unassigned is the k-th of the upper-case labels "A", "B", "C", ...,  *)
(*    which Python orders before "unassigned", and a code above Unassigned *)
(*    is a str that Python orders after it ("west").                       *)
(*  - A geometry is its bounding rectangle, in hundredths of a degree.     *)
(***************************************************************************)
EXTENDS Integers, Sequences, FiniteSets, TLC

VARIABLES
    data_df,                    \* the caller's table: rows [key, value]
    vtype,                      \* "int" or "str": the type of the value column
    map_colors,                 \* the palette, a non-empty sequence of colours
    auto_fill_unassigned,       \* the auto-fill flag
    pc,                         \* the stage generate_map has completed
    norm_df,                    \* generate_map's copy of the table, keys padded
    gdf,                        \* the working set: rows [idx, ZIP_CODE, value, geometry]
    originally_unassigned_mask, \* index label -> BOOLEAN
    assigned_lookup,            \* ZIP_INT -> value, of the auto-fill
    unassigned_df,              \* the report: rows [ZIP_CODE, assigned_value]
    unique_vals,                \* sorted distinct values of the Style Classifier
    style_map,                  \* value -> <<colour, hatch>>
    states,                     \* the state boundaries: rows [STATE_ABBR, geometry]
    drawn,                      \* the groups of ZIP rows plotted, in plotting order
    error,                      \* the exception generate_map raised, or "none"
    host,                       \* the process: "streamlit" (app) or "lambda" (container)
    run_pc,                     \* run -> where the run is, as [at, k]
    reads,                      \* reference dataset -> reads of it from storage
    downloads,                  \* reference file -> downloads of it from S3
    tmp,                        \* the reference files present in /tmp
    script,                     \* the front end of the session: "app.py" or "app_aws.py"
    form,                       \* the widgets' values at the last click
    processing,                 \* st.session_state.processing
    map_error,                  \* st.session_state.map_error, <<>> for None
    png_bytes,                  \* st.session_state.png_bytes: the key downloaded, NoKey for None
    csv_bytes,                  \* st.session_state.csv_bytes
    button_disabled,            \* "Generate Map" as the last script run rendered it
    shown,                      \* the st.error messages of the last script run
    outcome,                    \* how the handling of the last click ended
    app_pc,                     \* the piece of its script run the front end has reached
    elapsed,                    \* the polling loop's counter
    polls,                      \* turns of the polling loop made for this click
    bucket,                     \* the keys of the job's objects in S3
    metadata,                   \* the Metadata of the uploaded object
    object_key,                 \* the key of the upload
    submitted_by,               \* the client that uploaded it
    lam_pc,                     \* where lambda_handler is
    status,                     \* the statusCode it returned; "raised" if it raised
    steps,                      \* the S3 writes it attempted: [op, ok]
    cfg,                        \* the arguments it built for generate_map
    invoked,                    \* generate_map was called
    wform,                      \* zip_map_streamlit_app.py: the widgets' values
    main_pc,                    \* where its script run is
    thread_pc,                  \* where map_worker is
    result,                     \* the result dict
    map_done_event,
    conversion_event,
    error_event,
    error_message,              \* error_message["msg"]
    page                        \* what the script run has put on the page

(* the variables of one run of generate_map *)
pipeline == <<data_df, vtype, map_colors, auto_fill_unassigned, pc, norm_df, gdf,
              originally_unassigned_mask, assigned_lookup, unassigned_df,
              unique_vals, style_map, states, drawn, error>>

(* the variables of the process the runs are in *)
process == <<host, run_pc, reads, downloads, tmp>>

(* the session of the front end *)
app == <<script, form, processing, map_error, png_bytes, csv_bytes, button_disabled, shown,
         outcome, app_pc, elapsed, polls>>

(* the job in S3 and the Lambda invocation it triggers *)
job == <<app, bucket, metadata, object_key, submitted_by, lam_pc, status, steps, cfg, invoked>>

(* a script run of zip_map_streamlit_app.py and its worker thread *)
worker == <<wform, main_pc, thread_pc, result, map_done_event, conversion_event,
            error_event, error_message, page>>

vars == <<pipeline, process, job, worker>>

-----------------------------------------------------------------------------
(* Bounds of the model *)

MaxRows == 2        \* rows of a free-form input table
MaxWide == 7        \* rows of a one-row-per-unit input table
MaxRuns == 3        \* runs of generate_map in one process

(* Program constants *)

NaN == 0            \* a missing cell (isna)
Unassigned == 99    \* the string "unassigned"
ZipWidth == 5       \* zfill(5)
MaxRadius == 500    \* max_radius=500

hatches == <<"", "//", "..", "xx", "\\\\">>

-----------------------------------------------------------------------------
(* Small helpers *)

Abs(n) == IF n < 0 THEN 0 - n ELSE n

SetMin(S) == CHOOSE m \in S : \A n \in S : m <= n

SetMax(S) == CHOOSE m \in S : \A n \in S : n <= m

Range(s) == {s[i] : i \in 1..Len(s)}

RECURSIVE SelectRows(_, _)
(* the rows of s, in order, at the positions in keep *)
SelectRows(s, keep) ==
    IF s = <<>> THEN <<>>
    ELSE LET n == Len(s)
             init == SelectRows(SubSeq(s, 1, n - 1), keep)
         IN  IF n \in keep THEN Append(init, s[n]) ELSE init

RECURSIVE Flatten(_)
Flatten(ss) == IF ss = <<>> THEN <<>> ELSE Head(ss) \o Flatten(Tail(ss))

Box(x0, y0, x1, y1) == [minx |-> x0, miny |-> y0, maxx |-> x1, maxy |-> y1]

-----------------------------------------------------------------------------
(* Reference data: ./data/zip_code_boundaries.shp, a sample of it.  The     *)
(* order is the file's, which is not the numeric order of the ZIP codes.    *)

zip_gdf ==
    << [ZIP_CODE |-> <<1,0,0,0,5>>, geometry |-> Box(-7400, 4000, -7300, 4100)],
       [ZIP_CODE |-> <<1,0,0,0,1>>, geometry |-> Box(-7400, 4000, -7300, 4100)],
       [ZIP_CODE |-> <<9,6,9,1,0>>, geometry |-> Box(14400, 1300, 14500, 1400)],
       [ZIP_CODE |-> <<1,0,0,0,9>>, geometry |-> Box(-7400, 4000, -7300, 4100)],
       [ZIP_CODE |-> <<1,0,0,0,4>>, geometry |-> Box(-7400, 4000, -7300, 4100)],
       [ZIP_CODE |-> <<0,0,6,0,1>>, geometry |-> Box(-6700, 1800, -6600, 1900)],
       [ZIP_CODE |-> <<1,0,0,0,6>>, geometry |-> Box(-7400, 4000, -7300, 4100)],
       [ZIP_CODE |-> <<1,0,5,0,1>>, geometry |-> Box(-7400, 4100, -7300, 4200)],
       [ZIP_CODE |-> <<9,6,8,6,3>>, geometry |-> Box(-15800, 2100, -15700, 2200)],
       [ZIP_CODE |-> <<1,0,5,0,2>>, geometry |-> Box(-7400, 4100, -7300, 4200)],
       [ZIP_CODE |-> <<9,9,5,0,1>>, geometry |-> Box(-15000, 6100, -14900, 6200)],
       [ZIP_CODE |-> <<9,9,6,9,2>>, geometry |-> Box(-16700, 5300, -16600, 5400)],
       [ZIP_CODE |-> <<0,4,6,5,2>>, geometry |-> Box(-6710, 4475, -6695, 4490)],
       [ZIP_CODE |-> <<9,9,9,2,3>>, geometry |-> Box(-13010, 5590, -12997, 5600)] >>

(* ./data/state_boundaries.shp, a sample of it, in the coordinates of the   *)
(* ZIP file (to_crs(gdf.crs) leaves such coordinates as they are).          *)
state_boundaries ==
    << [STATE_ABBR |-> "AK", geometry |-> Box(-17915, 5121, 17978, 7139)],
       [STATE_ABBR |-> "NY", geometry |-> Box(-7980, 4050, -7186, 4502)],
       [STATE_ABBR |-> "GU", geometry |-> Box(14462, 1323, 14496, 1366)],
       [STATE_ABBR |-> "DC", geometry |-> Box(-7712, 3879, -7691, 3900)],
       [STATE_ABBR |-> "HI", geometry |-> Box(-17844, 1886, -15475, 2852)],
       [STATE_ABBR |-> "VI", geometry |-> Box(-6509, 1767, -6456, 1842)],
       [STATE_ABBR |-> "ME", geometry |-> Box(-7108, 4306, -6695, 4746)],
       [STATE_ABBR |-> "PR", geometry |-> Box(-6799, 1783, -6517, 1857)],
       [STATE_ABBR |-> "MP", geometry |-> Box(14500, 1400, 14600, 2000)],
       [STATE_ABBR |-> "AS", geometry |-> Box(-17100, -1450, -16800, -1100)] >>

-----------------------------------------------------------------------------
(* Normalize ZIPs: astype(str).str.zfill(5) *)

RECURSIVE zfill(_, _)
zfill(s, width) == IF Len(s) >= width THEN s ELSE zfill(<<0>> \o s, width)

(* normalize padding on the right: str.ljust(5, "0") *)
normalize_ljust(df) ==
    [i \in 1..Len(df) |->
        [key |-> df[i].key \o [j \in 1..(IF Len(df[i].key) >= ZipWidth THEN 0
                                          ELSE ZipWidth - Len(df[i].key)) |-> 0],
         value |-> df[i].value]]

normalize(df) ==
    [i \in 1..Len(df) |-> [key |-> zfill(df[i].key, ZipWidth), value |-> df[i].value]]

(* astype(int) of a ZIP_CODE *)
RECURSIVE to_int(_)
to_int(s) == IF s = <<>> THEN 0 ELSE 10 * to_int(SubSeq(s, 1, Len(s) - 1)) + s[Len(s)]

-----------------------------------------------------------------------------
(* Merge data -> ZIP geometries: zip_gdf.merge(data_df, how="left").        *)
(* Every left row, in the left order, once per right row with its key (in   *)
(* the right order), or once with a missing value when there is none.       *)

matches(df, zip) == {j \in 1..Len(df) : df[j].key = zip}

merge_rows(left, df, i) ==
    LET hit == matches(df, left[i].ZIP_CODE)
    IN  IF hit = {}
        THEN << [ZIP_CODE |-> left[i].ZIP_CODE, value |-> NaN,
                 geometry |-> left[i].geometry] >>
        ELSE LET sel == SelectRows(df, hit)
             IN  [k \in 1..Len(sel) |->
                     [ZIP_CODE |-> left[i].ZIP_CODE, value |-> sel[k].value,
                      geometry |-> left[i].geometry]]

(* merge_left with the table first reduced to one row per value, as by      *)
(* drop_duplicates on the value column in place of the key column           *)
merge_left_first_per_value(left, df) ==
    LET kept == SelectRows(df, {j \in 1..Len(df) :
                                   \A i \in 1..(j - 1) : df[i].value # df[j].value})
        rows == Flatten([i \in 1..Len(left) |-> merge_rows(left, kept, i)])
    IN  [n \in 1..Len(rows) |->
            [idx |-> n - 1, ZIP_CODE |-> rows[n].ZIP_CODE,
             value |-> rows[n].value, geometry |-> rows[n].geometry]]

merge_left(left, df) ==
    LET rows == Flatten([i \in 1..Len(left) |-> merge_rows(left, df, i)])
    IN  [n \in 1..Len(rows) |->
            [idx |-> n - 1, ZIP_CODE |-> rows[n].ZIP_CODE,
             value |-> rows[n].value, geometry |-> rows[n].geometry]]

(* Track originally unassigned ZIPs: gdf[value_col].isna() *)
isna_mask(g) == [l \in {g[n].idx : n \in 1..Len(g)} |->
                    LET n == CHOOSE m \in 1..Len(g) : g[m].idx = l
                    IN  g[n].value = NaN]

-----------------------------------------------------------------------------
(* Auto-fill unassigned ZIPs *)

(* gdf.dropna(subset=[value_col]).set_index("ZIP_INT")[value_col].to_dict():  *)
(* the rows that have a value, keyed by ZIP_INT; of several rows with one     *)
(* key the dict keeps the last.                                               *)
build_lookup(g) ==
    LET has == {n \in 1..Len(g) : g[n].value # NaN}
    IN  [z \in {to_int(g[n].ZIP_CODE) : n \in has} |->
            g[SetMax({n \in has : to_int(g[n].ZIP_CODE) = z})].value]

(* find_nearest_value testing zip_int + d before zip_int - d *)
find_nearest_value_upper_first(zip_int, lookup, max_radius) ==
    LET hits == {d \in {Abs(k - zip_int) : k \in DOMAIN lookup} : d \in 1..max_radius}
    IN  IF hits = {} THEN Unassigned
        ELSE LET d == SetMin(hits)
             IN  IF (zip_int + d) \in DOMAIN lookup
                 THEN lookup[zip_int + d]
                 ELSE lookup[zip_int - d]

(* find_nearest_value with range(1, max_radius) *)
find_nearest_value_short(zip_int, lookup, max_radius) ==
    LET hits == {d \in {Abs(k - zip_int) : k \in DOMAIN lookup} : d \in 1..(max_radius - 1)}
    IN  IF hits = {} THEN Unassigned
        ELSE LET d == SetMin(hits)
             IN  IF (zip_int - d) \in DOMAIN lookup
                 THEN lookup[zip_int - d]
                 ELSE lookup[zip_int + d]

(* for d in range(1, max_radius + 1): zip_int - d, then zip_int + d.          *)
(* The loop is written in closed form: hits is the set of radii d at which    *)
(* one of its two tests succeeds (d is one iff some key of the lookup lies at *)
(* distance d from zip_int); the loop returns at the least of them, from its  *)
(* first test (zip_int - d) when that one succeeds, else from its second;     *)
(* with no such radius it falls through to return "unassigned".               *)
find_nearest_value(zip_int, lookup, max_radius) ==
    LET hits == {d \in {Abs(k - zip_int) : k \in DOMAIN lookup} : d \in 1..max_radius}
    IN  IF hits = {} THEN Unassigned
        ELSE LET d == SetMin(hits)
             IN  IF (zip_int - d) \in DOMAIN lookup
                 THEN lookup[zip_int - d]
                 ELSE lookup[zip_int + d]

(* fill_rows run a second time over the rows left "unassigned", from a       *)
(* lookup rebuilt after the first pass, so that a filled value is a source   *)
fill_rows_second_pass(g, mask, lookup) ==
    LET fill(h, lk) ==
            [n \in 1..Len(h) |->
                IF mask[h[n].idx] /\ h[n].value \in {NaN, Unassigned}
                THEN [h[n] EXCEPT !.value =
                         find_nearest_value(to_int(h[n].ZIP_CODE), lk, MaxRadius)]
                ELSE h[n]]
        g1 == fill(g, lookup)
        has == {n \in 1..Len(g1) : g1[n].value # Unassigned}
        lk2 == [z \in {to_int(g1[n].ZIP_CODE) : n \in has} |->
                   g1[SetMax({n \in has : to_int(g1[n].ZIP_CODE) = z})].value]
    IN  fill(g1, lk2)

(* gdf.loc[mask, value_col] = gdf.loc[mask, "ZIP_INT"].apply(...) *)
fill_rows(g, mask, lookup) ==
    [n \in 1..Len(g) |->
        IF mask[g[n].idx]
        THEN [g[n] EXCEPT !.value =
                 find_nearest_value(to_int(g[n].ZIP_CODE), lookup, MaxRadius)]
        ELSE g[n]]

(* build_report with the rows put in ZIP order: sort_values("ZIP_CODE") *)
build_report_by_zip(g, mask) ==
    LET sel == SelectRows(g, {n \in 1..Len(g) : mask[g[n].idx]})
        pos(k) == Cardinality({j \in 1..Len(sel) :
                     \/ to_int(sel[j].ZIP_CODE) < to_int(sel[k].ZIP_CODE)
                     \/ to_int(sel[j].ZIP_CODE) = to_int(sel[k].ZIP_CODE) /\ j <= k})
    IN  [i \in 1..Len(sel) |->
            LET k == CHOOSE m \in 1..Len(sel) : pos(m) = i
            IN  [ZIP_CODE |-> sel[k].ZIP_CODE,
                 assigned_value |-> IF sel[k].value = NaN THEN Unassigned ELSE sel[k].value]]

(* build_report selecting on the values as they are now, after the fill *)
build_report_recomputed(g, mask) ==
    LET sel == SelectRows(g, {n \in 1..Len(g) : g[n].value = NaN})
    IN  [k \in 1..Len(sel) |->
            [ZIP_CODE |-> sel[k].ZIP_CODE, assigned_value |-> Unassigned]]

(* Build unassigned report (ALWAYS) *)
build_report(g, mask) ==
    LET sel == SelectRows(g, {n \in 1..Len(g) : mask[g[n].idx]})
    IN  [k \in 1..Len(sel) |->
            [ZIP_CODE |-> sel[k].ZIP_CODE,
             assigned_value |-> IF sel[k].value = NaN THEN Unassigned ELSE sel[k].value]]

-----------------------------------------------------------------------------
(* Filter to CONUS + AK + HI + PR *)

(* in_extent testing the lower-left corner of the bounds alone *)
in_extent_by_corner(b) ==
    \/ b.minx > -13000 /\ b.minx < -6000  /\ b.miny > 2400 /\ b.miny < 5000
    \/ b.minx > -17000 /\ b.minx < -13000 /\ b.miny > 5000 /\ b.miny < 7200
    \/ b.minx > -16100 /\ b.minx < -15400 /\ b.miny > 1800 /\ b.miny < 2300
    \/ b.minx > -6800  /\ b.minx < -6500  /\ b.miny > 1700 /\ b.miny < 1950

in_extent(b) ==
    \/ b.minx > -13000 /\ b.maxx < -6000  /\ b.miny > 2400 /\ b.maxy < 5000
    \/ b.minx > -17000 /\ b.maxx < -13000 /\ b.miny > 5000 /\ b.maxy < 7200
    \/ b.minx > -16100 /\ b.maxx < -15400 /\ b.miny > 1800 /\ b.maxy < 2300
    \/ b.minx > -6800  /\ b.maxx < -6500  /\ b.miny > 1700 /\ b.maxy < 1950

extent_filter(g) == SelectRows(g, {n \in 1..Len(g) : in_extent(g[n].geometry)})

(* Transform ZIP geometries.  Factors are in hundredths, offsets in          *)
(* hundredths of a degree; the scaling is about the origin.                  *)
scale(b, xfact, yfact) ==
    Box((b.minx * xfact) \div 100, (b.miny * yfact) \div 100,
        (b.maxx * xfact) \div 100, (b.maxy * yfact) \div 100)

translate(b, xoff, yoff) ==
    Box(b.minx + xoff, b.miny + yoff, b.maxx + xoff, b.maxy + yoff)

(* relocate taking Puerto Rico by longitude alone: without "and maxy < 30" *)
relocate_by_longitude(b) ==
    IF -17000 < b.minx /\ b.minx < -13000 /\ 5000 < b.miny /\ b.miny < 7200
    THEN translate(scale(b, 45, 75), -5500, -2300)
    ELSE IF -6800 < b.minx /\ b.minx < -6500
    THEN translate(scale(b, 375, 375), 17150, -4700)
    ELSE IF -17200 < b.minx /\ b.minx < -15400 /\ b.miny < 5000
    THEN translate(scale(b, 225, 225), 24700, -2400)
    ELSE b

relocate(b) ==
    IF -17000 < b.minx /\ b.minx < -13000 /\ 5000 < b.miny /\ b.miny < 7200
    THEN translate(scale(b, 45, 75), -5500, -2300)              \* Alaska
    ELSE IF -6800 < b.minx /\ b.minx < -6500 /\ b.maxy < 3000
    THEN translate(scale(b, 375, 375), 17150, -4700)            \* Puerto Rico
    ELSE IF -17200 < b.minx /\ b.minx < -15400 /\ b.miny < 5000
    THEN translate(scale(b, 225, 225), 24700, -2400)            \* Hawaii
    ELSE b

transform_zips(g) ==
    [n \in 1..Len(g) |-> [g[n] EXCEPT !.geometry = relocate(g[n].geometry)]]

(* Load & transform state boundaries *)

(* states[~states["STATE_ABBR"].isin(["VI", "GU", "MP", "AS"])] *)
exclude_territories(st) ==
    SelectRows(st, {k \in 1..Len(st) : st[k].STATE_ABBR \notin {"VI", "GU", "MP", "AS"}})

(* relocate_state with the coefficients of Hawaii and Puerto Rico exchanged *)
relocate_state_swapped(abbr, b) ==
    IF abbr = "AK" THEN translate(scale(b, 45, 75), -5500, -2300)
    ELSE IF abbr = "HI" THEN translate(scale(b, 375, 375), 17150, -4700)
    ELSE IF abbr = "PR" THEN translate(scale(b, 225, 225), 24700, -2400)
    ELSE b

relocate_state(abbr, b) ==
    IF abbr = "AK" THEN translate(scale(b, 45, 75), -5500, -2300)
    ELSE IF abbr = "HI" THEN translate(scale(b, 225, 225), 24700, -2400)
    ELSE IF abbr = "PR" THEN translate(scale(b, 375, 375), 17150, -4700)
    ELSE b

transform_states(st) ==
    [k \in 1..Len(st) |->
        [st[k] EXCEPT !.geometry = relocate_state(st[k].STATE_ABBR, st[k].geometry)]]

(* Clip: gpd.clip(gdf, box(-130, 18, -60, 55)) keeps the rows whose geometry  *)
(* intersects the box, each cut to the box.                                   *)
clip_box == Box(-13000, 1800, -6000, 5500)

intersects(a, b) ==
    a.minx <= b.maxx /\ b.minx <= a.maxx /\ a.miny <= b.maxy /\ b.miny <= a.maxy

intersection(a, b) ==
    Box(IF a.minx > b.minx THEN a.minx ELSE b.minx,
        IF a.miny > b.miny THEN a.miny ELSE b.miny,
        IF a.maxx < b.maxx THEN a.maxx ELSE b.maxx,
        IF a.maxy < b.maxy THEN a.maxy ELSE b.maxy)

(* clip cutting every row to the box and keeping them all *)
clip_cut_only(g, mask_box) ==
    [k \in 1..Len(g) |-> [g[k] EXCEPT !.geometry = intersection(g[k].geometry, mask_box)]]

clip(g, mask_box) ==
    LET kept == SelectRows(g, {n \in 1..Len(g) : intersects(g[n].geometry, mask_box)})
    IN  [k \in 1..Len(kept) |->
            [kept[k] EXCEPT !.geometry = intersection(kept[k].geometry, mask_box)]]

-----------------------------------------------------------------------------
(* Plot (COLOR + HATCHING): the Style Classifier *)

(* gdf[value_col].dropna().unique() *)
distinct_values(g) == {g[n].value : n \in 1..Len(g)} \ {NaN}

(* sorted(...) compares its elements with <, which Python does not define    *)
(* between a str and a number: it raises TypeError on a list that holds both. *)
sort_raises(S, vt) == vt = "int" /\ Unassigned \in S /\ S \ {Unassigned} # {}

(* sorted(unique_vals): ascending by <.  The codes of a table's values keep  *)
(* the order Python gives the values: numbers by size, str by code point,    *)
(* so a str below "unassigned" ("east") has a code below Unassigned and a    *)
(* str above it ("west") a code above.                                       *)
RECURSIVE sorted(_)
sorted(S) == IF S = {} THEN <<>>
             ELSE LET m == SetMin(S) IN <<m>> \o sorted(S \ {m})

(* hatches[i // len(base_colors)] raises IndexError past the last hatch *)
hatch_raises(n, palette) ==
    \E i \in 0..(n - 1) : i \div Len(palette) >= Len(hatches)

(* build_style_map counting the colours from 1: enumerate(unique_vals, 1) *)
build_style_map_rotated(vals, palette) ==
    [v \in Range(vals) |->
        LET i == (CHOOSE k \in 1..Len(vals) : vals[k] = v) - 1
        IN  << palette[((i + 1) % Len(palette)) + 1], hatches[(i \div Len(palette)) + 1] >>]

(* for i, val in enumerate(unique_vals): style_map[val] = (color, hatch) *)
build_style_map(vals, palette) ==
    [v \in Range(vals) |->
        LET i == (CHOOSE k \in 1..Len(vals) : vals[k] = v) - 1
        IN  << palette[(i % Len(palette)) + 1], hatches[(i \div Len(palette)) + 1] >>]

(* Draw ZIPs group-by-group: for val, (color, hatch) in style_map.items():   *)
(* gdf[gdf[value_col] == val].plot(...).  The dict is walked in the order   *)
(* its keys were inserted, that of unique_vals.                             *)
draw_groups(g, vals, sm) ==
    [i \in 1..Len(vals) |->
        [val |-> vals[i],
         facecolor |-> sm[vals[i]][1],
         hatch |-> sm[vals[i]][2],
         edgecolor |-> IF sm[vals[i]][2] = ".." THEN "white" ELSE "none",
         rows |-> {g[n].idx : n \in {m \in 1..Len(g) : g[m].value = vals[i]}}]]

classify(g, palette, vt) ==
    LET S == distinct_values(g)
    IN  IF sort_raises(S, vt)
        THEN [error |-> "TypeError", unique_vals |-> <<>>, style_map |-> <<>>]
        ELSE IF hatch_raises(Cardinality(S), palette)
        THEN [error |-> "IndexError", unique_vals |-> sorted(S), style_map |-> <<>>]
        ELSE [error |-> "none", unique_vals |-> sorted(S),
              style_map |-> build_style_map(sorted(S), palette)]

-----------------------------------------------------------------------------
(* generate_map as a function of its arguments, stage after stage *)

joined_of(df) == merge_left(zip_gdf, normalize(df))

filled_of(df, auto) ==
    LET g == joined_of(df)
    IN  IF auto THEN fill_rows(g, isna_mask(g), build_lookup(g)) ELSE g

drawn_of(df, auto) == clip(transform_zips(extent_filter(filled_of(df, auto))), clip_box)

styles_of(df, vt, palette, auto) == classify(drawn_of(df, auto), palette, vt)

-----------------------------------------------------------------------------
(* The inputs of a run *)

MaxPalette == 3     \* colours of a palette

RawKeys == { <<1,0,0,0,1>>, <<1,0,0,0,9>>, <<9,6,9,1,0>> }

(* the values of a free-form table: as numbers 1 and 100, as str one below   *)
(* and one above "unassigned" in code-point order                            *)
Values == {1, 100}

FreeTables ==
    UNION {[1..n -> [key : RawKeys, value : Values \cup {NaN}]] : n \in 0..MaxRows}

WideKeys == << <<1,0,0,0,1>>, <<1,0,0,0,4>>, <<1,0,0,0,5>>, <<1,0,0,0,6>>,
               <<6,0,1>>, <<1,0,0,0,1,0>>, <<1,0,0,0,9>>, <<1,0,5,0,1>>,
               <<9,6,8,6,3>>, <<9,9,5,0,1>> >>

(* one row per key, the values descending along the table; the keys are    *)
(* those of units, one of them unpadded, and one that is no ZIP code       *)
WideTables ==
    {[i \in 1..n |-> [key |-> WideKeys[i], value |-> n + 1 - i]] :
        n \in 1..(IF MaxWide < Len(WideKeys) THEN MaxWide ELSE Len(WideKeys))}

(* a table with empty value cells above a filled one *)
SparseTables ==
    { << [key |-> <<1,0,0,0,9>>, value |-> NaN],
         [key |-> <<1,0,0,0,1>>, value |-> NaN],
         [key |-> <<1,0,0,0,5>>, value |-> 1] >> }

Colors == <<"#1579b3", "#fb9331", "#92e091", "#ff474a", "#5dc0ea",
            "#fbc895", "#B07AA1", "#FF9DA7", "#bfe2f5", "#139638">>

Palettes ==
    {SubSeq(Colors, 1, n) : n \in 1..(IF MaxPalette < Len(Colors) THEN MaxPalette ELSE Len(Colors))}

-----------------------------------------------------------------------------
(* The process: the reference data and the runs that read it *)

Runs == 1..MaxRuns

(* what generate_map reads, in the order it reads it: get_state_locs(), and  *)
(* the two gpd.read_file calls                                               *)
Datasets == <<"state_abbv_offsets.json", "zip_code_boundaries.shp", "state_boundaries.shp">>

(* the keys of REFERENCE_FILES, which download_reference_files walks *)
REFERENCE_FILES ==
    <<"state_boundaries.parquet", "zip_code_boundaries.parquet", "state_abbv_offsets.json">>

Idle == [at |-> "idle", k |-> 0]

ProcessInit ==
    /\ run_pc = [r \in Runs |-> Idle]
    /\ reads = [d \in Range(Datasets) |-> 0]
    /\ downloads = [f \in Range(REFERENCE_FILES) |-> 0]
    /\ tmp = {}

-----------------------------------------------------------------------------
(* The job submitted through S3: app.py validates the form and uploads the   *)
(* workbook with the configuration as object metadata, lambda_handler runs   *)
(* on the upload and writes its results under results/, app.py polls for     *)
(* them.  One job is followed at a time: the latest one of the session.      *)

(* Python's None, among the strings *)
None == "None"

(* timeout = 900, with poll_interval = 1 *)
timeout == 900

(* the columns of the uploaded workbook's first sheet *)
Columns == {"ZIP", "Value"}

GeogLabels == {"", "ZIP", "zip", "Region"}
ValueLabels == {"", "Value", "Sales"}

(* c.strip().lower() *)
strip_lower(s) ==
    CASE s = "ZIP" -> "zip"
      [] s = "Value" -> "value"
      [] s = "Sales" -> "sales"
      [] s = "Region" -> "region"
      [] OTHER -> s

(* the file of the uploader: its name, and whether pd.read_excel can read    *)
(* it; NoFile is the empty uploader.  A name is the sequence of its pieces:  *)
(* every blank and every ".xlsx" is a piece of its own, and so is each run   *)
(* of characters between them, so that str.replace is a replacement of       *)
(* pieces.                                                                   *)
NoFile == [name |-> <<>>, readable |-> FALSE]
PlainFiles == {[name |-> <<"data", ".xlsx">>, readable |-> TRUE],
               [name |-> <<"DATA", ".XLSX">>, readable |-> TRUE],
               [name |-> <<"broken", ".xlsx">>, readable |-> FALSE]}
(* a name with a blank, and one with ".xlsx" twice, of a file that is no     *)
(* workbook                                                                  *)
OddFiles == {[name |-> <<"my", " ", "data", ".xlsx">>, readable |-> TRUE],
             [name |-> <<"a", ".xlsx", ".xlsx">>, readable |-> FALSE]}
Files == {NoFile} \cup PlainFiles \cup OddFiles

(* the optional widgets as the page loads them: no title, auto-assign        *)
(* checked, the ten colour pickers on map_colors, the radio on its first     *)
(* choice                                                                    *)
Loaded == [map_title |-> "", auto_assign_zipcodes |-> TRUE,
           selected_colors |-> Colors, map_type |-> "By Zipcode"]

(* the optional widgets: as loaded, or each of them changed (of the pickers  *)
(* the second)                                                               *)
Options ==
    {Loaded,
     [map_title |-> "Coverage", auto_assign_zipcodes |-> FALSE,
      selected_colors |-> [Colors EXCEPT ![2] = "#000000"], map_type |-> "By State"]}

(* the widgets' values a click finds: every choice of file, labels and       *)
(* options for the plain names, and for the odd names the two columns named  *)
(* as they are, the options as loaded                                        *)
Forms ==
    {[excel_file |-> f, geog_col_label |-> g, value_col_label |-> v,
      map_title |-> o.map_title, auto_assign_zipcodes |-> o.auto_assign_zipcodes,
      selected_colors |-> o.selected_colors, map_type |-> o.map_type] :
        f \in {NoFile} \cup PlainFiles, g \in GeogLabels, v \in ValueLabels, o \in Options}
    \cup
    {[excel_file |-> f, geog_col_label |-> "ZIP", value_col_label |-> "Value",
      map_title |-> Loaded.map_title, auto_assign_zipcodes |-> Loaded.auto_assign_zipcodes,
      selected_colors |-> Loaded.selected_colors, map_type |-> Loaded.map_type] :
        f \in OddFiles}

(* the forms of app_aws.py's page, which has no colour picker and no radio:  *)
(* title and checkbox are taken as loaded                                    *)
AwsForms == {f \in Forms : f.map_title = Loaded.map_title
                           /\ f.auto_assign_zipcodes = Loaded.auto_assign_zipcodes
                           /\ f.selected_colors = Loaded.selected_colors
                           /\ f.map_type = Loaded.map_type}

UPLOAD_PREFIX == "uploads/"
RESULTS_PREFIX == "results/"

(* an object key is the sequence of its pieces, the prefix a piece of its    *)
(* own; NoKey is None                                                        *)
NoKey == <<>>

(* s.replace(old, new): every piece old gives way to the pieces new *)
RECURSIVE replace(_, _, _)
replace(s, old, new) ==
    IF s = <<>> THEN <<>>
    ELSE (IF Head(s) = old THEN new ELSE <<Head(s)>>) \o replace(Tail(s), old, new)

(* key.endswith(suffix) *)
endswith(key, suffix) == key # <<>> /\ key[Len(key)] = suffix

(* timestamp = datetime.now().strftime("%Y%m%d_%H%M%S"), no blank in it;     *)
(* safe_name = file.name.replace(".xlsx", f"_{timestamp}.xlsx")              *)
(*                      .replace(" ", "_"); s3_key = UPLOAD_PREFIX safe_name *)
upload_key(file) ==
    <<UPLOAD_PREFIX>>
        \o replace(replace(file.name, ".xlsx", <<"_", "timestamp", ".xlsx">>), " ", <<"_">>)

(* key.replace("uploads/", "results/").replace(".xlsx", suffix) *)
replace_key(key, suffix) ==
    replace(replace(key, UPLOAD_PREFIX, <<RESULTS_PREFIX>>), ".xlsx", <<suffix>>)

(* the three keys app.py polls *)
result_s3_key(key) == replace_key(key, ".png")
unassigned_s3_key(key) == replace_key(key, "_unassigned.csv")
error_s3_key(key) == replace_key(key, "_error.json")

(* the three keys lambda_handler writes *)
result_key(key) == replace_key(key, ".png")
unassigned_key(key) == replace_key(key, "_unassigned.csv")
error_key(key) == replace_key(key, "_error.json")

(* str(bool) *)
str_bool(b) == IF b THEN "True" ELSE "False"

(* str(list) and ast.literal_eval of it *)
str_list(l) == [repr |-> l]
literal_eval(s) == s.repr

MetadataKeys == {"geog_col", "value_col", "map_title", "auto_assign_zipcodes",
                 "selected_colors", "map_type"}

(* the Metadata of app.py's upload_excel_to_s3 *)
app_metadata(f) ==
    [geog_col |-> f.geog_col_label,
     value_col |-> f.value_col_label,
     map_title |-> IF f.map_title = "" THEN "" ELSE f.map_title,
     auto_assign_zipcodes |-> str_bool(f.auto_assign_zipcodes),
     selected_colors |-> str_list(f.selected_colors),
     map_type |-> f.map_type]

(* the Metadata of app_aws.py's upload_excel_to_s3 *)
aws_metadata(f) ==
    [zip_col |-> f.geog_col_label,
     value_col |-> f.value_col_label,
     map_title |-> IF f.map_title = "" THEN "" ELSE f.map_title,
     auto_assign_zipcodes |-> str_bool(f.auto_assign_zipcodes)]

(* metadata.get(k) *)
get(md, k) == IF k \in DOMAIN md THEN md[k] ELSE None

(* the arguments lambda_handler builds for generate_map from the metadata;   *)
(* ast.literal_eval(None) raises, so this is defined with selected_colors    *)
read_config(md) ==
    [geog_col |-> get(md, "geog_col"),
     value_col |-> get(md, "value_col"),
     map_title |-> IF get(md, "map_title") \in {None, ""} THEN None ELSE get(md, "map_title"),
     auto_fill_unassigned |-> (get(md, "auto_assign_zipcodes") = "True"),
     map_colors |-> literal_eval(md["selected_colors"]),
     geog_type |-> IF get(md, "map_type") = "By Zipcode" THEN "zip" ELSE "state"]

(* the two front ends that submit through S3 *)
Scripts == {"app.py", "app_aws.py"}

(* the session of the front end as its first script run leaves it, no job    *)
(* in S3, the Lambda not triggered                                           *)
JobInit ==
    /\ form = CHOOSE f \in Forms : f.excel_file = NoFile /\ f.geog_col_label = ""
                                   /\ f.value_col_label = "" /\ f.map_title = ""
    /\ processing = FALSE
    /\ map_error = <<>>
    /\ png_bytes = NoKey
    /\ csv_bytes = NoKey
    /\ button_disabled = FALSE
    /\ shown = <<>>
    /\ outcome = "none"
    /\ app_pc = "idle"
    /\ elapsed = 0
    /\ polls = 0
    /\ bucket = {}
    /\ metadata = <<>>
    /\ object_key = NoKey
    /\ submitted_by = "nobody"
    /\ lam_pc = "idle"
    /\ status = "none"
    /\ steps = <<>>
    /\ cfg = <<>>
    /\ invoked = FALSE

-----------------------------------------------------------------------------
(* zip_map_streamlit_app.py: the script run of a click on "Generate Map",    *)
(* its worker thread map_worker, the three events and the result dict.       *)

ZipLabels == {"", "ZIP", "zip"}

(* the uploader of zip_map_streamlit_app.py: a workbook, or nothing *)
Workbooks == {"none", "workbook", "not a workbook"}

WorkerForms == [color_data_file : Workbooks, zip_col_label : ZipLabels,
                value_col_label : ValueLabels]

(* the page before a click: nothing started, no event, no result dict yet *)
WorkerInit ==
    /\ wform = [color_data_file |-> "none", zip_col_label |-> "", value_col_label |-> ""]
    /\ main_pc = "idle"
    /\ thread_pc = "not started"
    /\ result = <<>>
    /\ map_done_event = FALSE
    /\ conversion_event = FALSE
    /\ error_event = FALSE
    /\ error_message = ""
    /\ page = <<>>

-----------------------------------------------------------------------------
Init ==
    /\ host = "streamlit"
    /\ ProcessInit
    /\ script = "app.py"
    /\ JobInit
    /\ WorkerInit
    /\ data_df \in FreeTables \cup WideTables \cup SparseTables
    /\ vtype \in {"int", "str"}
    /\ map_colors \in Palettes
    /\ auto_fill_unassigned \in BOOLEAN
    /\ pc = "start"
    /\ norm_df = <<>>
    /\ gdf = <<>>
    /\ originally_unassigned_mask = <<>>
    /\ assigned_lookup = <<>>
    /\ unassigned_df = <<>>
    /\ unique_vals = <<>>
    /\ style_map = <<>>
    /\ states = <<>>
    /\ drawn = <<>>
    /\ error = "none"

inputs == <<data_df, vtype, map_colors, auto_fill_unassigned>>

(* data_df = data_df.copy(); data_df[zip_col] = ...zfill(5) *)
NormalizeZips ==
    /\ pc = "start"
    /\ norm_df' = normalize(data_df)
    /\ pc' = "normalized"
    /\ UNCHANGED <<inputs, process, job, worker, gdf, originally_unassigned_mask, assigned_lookup,
                   unassigned_df, unique_vals, style_map, states, drawn, error>>

(* gdf = zip_gdf.merge(data_df, ..., how="left") *)
Merge ==
    /\ pc = "normalized"
    /\ gdf' = merge_left(zip_gdf, norm_df)
    /\ pc' = "joined"
    /\ UNCHANGED <<inputs, process, job, worker, norm_df, originally_unassigned_mask, assigned_lookup,
                   unassigned_df, unique_vals, style_map, states, drawn, error>>

(* originally_unassigned_mask = gdf[value_col].isna() *)
TrackUnassigned ==
    /\ pc = "joined"
    /\ originally_unassigned_mask' = isna_mask(gdf)
    /\ pc' = "masked"
    /\ UNCHANGED <<inputs, process, job, worker, norm_df, gdf, assigned_lookup,
                   unassigned_df, unique_vals, style_map, states, drawn, error>>

(* if auto_fill_unassigned: ... *)
AutoFill ==
    /\ pc = "masked"
    /\ IF auto_fill_unassigned
       THEN /\ assigned_lookup' = build_lookup(gdf)
            /\ gdf' = fill_rows(gdf, originally_unassigned_mask, build_lookup(gdf))
       ELSE UNCHANGED <<assigned_lookup, gdf>>
    /\ pc' = "imputed"
    /\ UNCHANGED <<inputs, process, job, worker, norm_df, originally_unassigned_mask,
                   unassigned_df, unique_vals, style_map, states, drawn, error>>

(* unassigned_df = gdf.loc[originally_unassigned_mask, ...].fillna(...) *)
BuildReport ==
    /\ pc = "imputed"
    /\ unassigned_df' = build_report(gdf, originally_unassigned_mask)
    /\ pc' = "reported"
    /\ UNCHANGED <<inputs, process, job, worker, norm_df, gdf, originally_unassigned_mask,
                   assigned_lookup, unique_vals, style_map, states, drawn, error>>

(* the extent filter taking out of the report the units it drops *)
ExtentFilter_trimming_report ==
    /\ pc = "reported"
    /\ gdf' = extent_filter(gdf)
    /\ unassigned_df' =
           LET kept == {extent_filter(gdf)[n].ZIP_CODE : n \in 1..Len(extent_filter(gdf))}
           IN  SelectRows(unassigned_df,
                          {k \in 1..Len(unassigned_df) : unassigned_df[k].ZIP_CODE \in kept})
    /\ pc' = "filtered"
    /\ UNCHANGED <<inputs, process, job, worker, norm_df, originally_unassigned_mask, assigned_lookup,
                   unique_vals, style_map, states, drawn, error>>

(* gdf = gdf[ ...four windows... ].copy() *)
ExtentFilter ==
    /\ pc = "reported"
    /\ gdf' = extent_filter(gdf)
    /\ pc' = "filtered"
    /\ UNCHANGED <<inputs, process, job, worker, norm_df, originally_unassigned_mask, assigned_lookup,
                   unassigned_df, unique_vals, style_map, states, drawn, error>>

(* TransformZips placed before the extent filter, which it then skips *)
TransformZips_unfiltered ==
    /\ pc \in {"reported", "filtered"}
    /\ gdf' = transform_zips(gdf)
    /\ pc' = "relocated"
    /\ UNCHANGED <<inputs, process, job, worker, norm_df, originally_unassigned_mask, assigned_lookup,
                   unassigned_df, unique_vals, style_map, states, drawn, error>>

(* for i, row in gdf.iterrows(): ... gdf.at[i, "geometry"] = geom *)
TransformZips ==
    /\ pc = "filtered"
    /\ gdf' = transform_zips(gdf)
    /\ pc' = "relocated"
    /\ UNCHANGED <<inputs, process, job, worker, norm_df, originally_unassigned_mask, assigned_lookup,
                   unassigned_df, unique_vals, style_map, states, drawn, error>>

(* states = gpd.read_file(...); states = states[~...isin(...)]; the loop *)
TransformStates ==
    /\ pc = "relocated"
    /\ states' = transform_states(exclude_territories(state_boundaries))
    /\ pc' = "states_loaded"
    /\ UNCHANGED <<inputs, process, job, worker, norm_df, gdf, originally_unassigned_mask, assigned_lookup,
                   unassigned_df, unique_vals, style_map, drawn, error>>

(* gdf = gpd.clip(gdf, clip_box); states = gpd.clip(states, clip_box) *)
Clip ==
    /\ pc = "states_loaded"
    /\ gdf' = clip(gdf, clip_box)
    /\ states' = clip(states, clip_box)
    /\ pc' = "clipped"
    /\ UNCHANGED <<inputs, process, job, worker, norm_df, originally_unassigned_mask, assigned_lookup,
                   unassigned_df, unique_vals, style_map, drawn, error>>

(* unique_vals = sorted(...); style_map = {...}; an exception ends the run *)
StyleClassifier ==
    /\ pc = "clipped"
    /\ LET r == classify(gdf, map_colors, vtype)
       IN  /\ error' = r.error
           /\ unique_vals' = r.unique_vals
           /\ style_map' = r.style_map
           /\ pc' = IF r.error = "none" THEN "styled" ELSE "raised"
    /\ UNCHANGED <<inputs, process, job, worker, norm_df, gdf, originally_unassigned_mask,
                   assigned_lookup, unassigned_df, states, drawn>>

(* for val, (color, hatch) in style_map.items(): gdf[...].plot(...) *)
DrawZips ==
    /\ pc = "styled"
    /\ drawn' = draw_groups(gdf, unique_vals, style_map)
    /\ pc' = "rendered"
    /\ UNCHANGED <<inputs, process, job, worker, norm_df, gdf, originally_unassigned_mask, assigned_lookup,
                   unassigned_df, unique_vals, style_map, states, error>>

(* return fig, unassigned_df *)
Return ==
    /\ pc = "rendered"
    /\ pc' = "done"
    /\ UNCHANGED <<inputs, process, job, worker, norm_df, gdf, originally_unassigned_mask,
                   assigned_lookup, unassigned_df, unique_vals, style_map, states, drawn, error>>

Next ==
    \/ NormalizeZips
    \/ Merge
    \/ TrackUnassigned
    \/ AutoFill
    \/ BuildReport
    \/ ExtentFilter
    \/ TransformZips
    \/ TransformStates
    \/ Clip
    \/ StyleClassifier
    \/ DrawZips
    \/ Return

Spec == Init /\ [][Next]_vars

-----------------------------------------------------------------------------
(* Several runs in one process.  A run of generate_map is taken here by its  *)
(* reads of the reference data alone.  In the Streamlit app every run is on  *)
(* a worker thread of its own (threading.Thread(target=map_worker)) and the  *)
(* sessions of one server process run side by side; a Lambda container       *)
(* handles one event at a time, and its handler fetches the reference files  *)
(* into /tmp before it calls generate_map.                                   *)

(* generate_map(...) is called on the worker thread *)
GenerateMapCall(r) ==
    /\ host = "streamlit"
    /\ run_pc[r] = Idle
    /\ run_pc' = [run_pc EXCEPT ![r] = [at |-> "before", k |-> 1]]
    /\ UNCHANGED <<pipeline, job, worker, host, reads, downloads, tmp>>

(* with open("./state_abbv_offsets.json") / gpd.read_file(...): the read of  *)
(* the k-th dataset starts; nothing is looked up before it                   *)
ReadBegin(r) ==
    /\ run_pc[r].at = "before"
    /\ run_pc' = [run_pc EXCEPT ![r].at = "reading"]
    /\ reads' = [reads EXCEPT ![Datasets[run_pc[r].k]] = @ + 1]
    /\ UNCHANGED <<pipeline, job, worker, host, downloads, tmp>>

(* the read returns the data to the run; nothing is kept for other runs *)
ReadEnd(r) ==
    /\ run_pc[r].at = "reading"
    /\ run_pc' = [run_pc EXCEPT ![r] =
                     IF run_pc[r].k < Len(Datasets)
                     THEN [at |-> "before", k |-> run_pc[r].k + 1]
                     ELSE [at |-> "returned", k |-> 0]]
    /\ UNCHANGED <<pipeline, job, worker, host, reads, downloads, tmp>>

(* lambda_handler(event, context): download_reference_files(bucket_name) *)
LambdaHandler(r) ==
    /\ host = "lambda"
    /\ run_pc[r] = Idle
    /\ \A q \in Runs : run_pc[q].at \in {"idle", "returned"}
    /\ run_pc' = [run_pc EXCEPT ![r] = [at |-> "checking", k |-> 1]]
    /\ UNCHANGED <<pipeline, job, worker, host, reads, downloads, tmp>>

(* the place after the k-th reference file *)
after_file(k) ==
    IF k < Len(REFERENCE_FILES) THEN [at |-> "checking", k |-> k + 1]
    ELSE [at |-> "generating", k |-> 0]

(* if not os.path.exists(local_path): *)
CheckReferenceFile(r) ==
    /\ run_pc[r].at = "checking"
    /\ run_pc' = [run_pc EXCEPT ![r] =
                     IF REFERENCE_FILES[run_pc[r].k] \in tmp
                     THEN after_file(run_pc[r].k)
                     ELSE [at |-> "downloading", k |-> run_pc[r].k]]
    /\ UNCHANGED <<pipeline, job, worker, host, reads, downloads, tmp>>

(* s3.download_file(bucket_name, f"reference/{key}", local_path) *)
DownloadReferenceFile(r) ==
    /\ run_pc[r].at = "downloading"
    /\ downloads' = [downloads EXCEPT ![REFERENCE_FILES[run_pc[r].k]] = @ + 1]
    /\ tmp' = tmp \cup {REFERENCE_FILES[run_pc[r].k]}
    /\ run_pc' = [run_pc EXCEPT ![r] = after_file(run_pc[r].k)]
    /\ UNCHANGED <<pipeline, job, worker, host, reads>>

(* the rest of the handler: the Excel file, generate_map of zip_utils, the   *)
(* uploads                                                                   *)
LambdaGenerateMap(r) ==
    /\ run_pc[r].at = "generating"
    /\ run_pc' = [run_pc EXCEPT ![r] = [at |-> "returned", k |-> 0]]
    /\ UNCHANGED <<pipeline, job, worker, host, reads, downloads, tmp>>

(* no run of generate_map is followed *)
PipelineIdle ==
    /\ data_df = <<>>
    /\ vtype = "str"
    /\ map_colors = <<Colors[1]>>
    /\ auto_fill_unassigned = FALSE
    /\ pc = "start"
    /\ norm_df = <<>>
    /\ gdf = <<>>
    /\ originally_unassigned_mask = <<>>
    /\ assigned_lookup = <<>>
    /\ unassigned_df = <<>>
    /\ unique_vals = <<>>
    /\ style_map = <<>>
    /\ states = <<>>
    /\ drawn = <<>>
    /\ error = "none"

ProcessStart ==
    /\ host \in {"streamlit", "lambda"}
    /\ ProcessInit
    /\ script = "app.py"
    /\ JobInit
    /\ WorkerInit
    /\ data_df = <<>>
    /\ vtype = "str"
    /\ map_colors = <<Colors[1]>>
    /\ auto_fill_unassigned = FALSE
    /\ pc = "start"
    /\ norm_df = <<>>
    /\ gdf = <<>>
    /\ originally_unassigned_mask = <<>>
    /\ assigned_lookup = <<>>
    /\ unassigned_df = <<>>
    /\ unique_vals = <<>>
    /\ style_map = <<>>
    /\ states = <<>>
    /\ drawn = <<>>
    /\ error = "none"

ProcessNext ==
    \E r \in Runs :
        \/ GenerateMapCall(r)
        \/ ReadBegin(r)
        \/ ReadEnd(r)
        \/ LambdaHandler(r)
        \/ CheckReferenceFile(r)
        \/ DownloadReferenceFile(r)
        \/ LambdaGenerateMap(r)

ProcessSpec == ProcessStart /\ [][ProcessNext]_vars

(* the messages of lines 150-161, in the order of the tests *)
blank_errors(f) ==
    IF f.excel_file = NoFile THEN <<"Please upload an Excel file.">>
    ELSE IF f.geog_col_label = "" THEN <<"Please enter a Zip Code column label.">>
    ELSE IF f.value_col_label = "" THEN <<"Please enter a Value column label.">>
    ELSE <<>>

(* lines 163-177: the error list the validation leaves in map_error, empty   *)
(* when it leaves map_error alone                                            *)
validation_errors(f) ==
    IF ~f.excel_file.readable THEN <<"Could not read Excel file">>
    ELSE LET columns_lower == {strip_lower(c) : c \in Columns}
         IN  (IF strip_lower(f.geog_col_label) \notin columns_lower
              THEN <<"Column (geog) not found">> ELSE <<>>)
             \o (IF strip_lower(f.value_col_label) \notin columns_lower
                 THEN <<"Column (value) not found">> ELSE <<>>)

(* A script run of app.py ends where the script ends, at st.stop() or        *)
(* st.rerun(), or at any st call once a rerun was requested (a widget was    *)
(* edited): the session state then stays as the run left it.  The actions    *)
(* below cut the run of a click at the st calls between which the session    *)
(* state changes; app_pc is the piece the run has reached.                   *)

(* A click on "Generate Map" with the form f on the page: the callback       *)
(* set_processing runs (lines 28-29), then the script starts and draws the   *)
(* page, the button from processing: lines 13-103.  The click comes on a     *)
(* page at rest, on a button that was rendered enabled.                      *)
GenerateClick(f) ==
    /\ script = "app.py"
    /\ app_pc = "idle"
    /\ outcome = "none"
    /\ ~button_disabled
    /\ form' = f
    /\ processing' = TRUE
    /\ button_disabled' = TRUE
    /\ shown' = <<>>
    /\ outcome' = "none"
    /\ app_pc' = "running"
    /\ elapsed' = 0
    /\ polls' = 0
    /\ bucket' = {}
    /\ metadata' = <<>>
    /\ object_key' = NoKey
    /\ submitted_by' = "nobody"
    /\ lam_pc' = "idle"
    /\ status' = "none"
    /\ steps' = <<>>
    /\ cfg' = <<>>
    /\ invoked' = FALSE
    /\ UNCHANGED <<pipeline, process, worker, script, map_error, png_bytes, csv_bytes>>

(* if generate_button: lines 148-178.  A blank field sets processing back,   *)
(* shows its message and stops the run; else the validation leaves its       *)
(* errors, if any, in map_error, with processing set back.                   *)
MainLogic ==
    /\ script = "app.py"
    /\ app_pc = "running"
    /\ IF blank_errors(form) # <<>>
       THEN /\ processing' = FALSE
            /\ shown' = blank_errors(form)
            /\ outcome' = "configuration"
            /\ app_pc' = "idle"
            /\ UNCHANGED map_error
       ELSE LET found == validation_errors(form)
                errs == IF found # <<>> THEN found ELSE map_error
            IN  /\ processing' = (found = <<>>)
                /\ map_error' = errs
                /\ app_pc' = IF errs # <<>> THEN "validated" ELSE "uploading"
                /\ UNCHANGED <<shown, outcome>>
    /\ UNCHANGED <<pipeline, process, worker, script, form, png_bytes, csv_bytes,
                   button_disabled, elapsed, polls, bucket, metadata, object_key,
                   submitted_by, lam_pc, status, steps, cfg, invoked>>

(* if st.session_state.map_error: lines 179-183.  Every entry is shown,      *)
(* map_error is cleared and the run stops; the entries are those of this     *)
(* run's validation or, when it found nothing, those an earlier run left.    *)
ShowErrors ==
    /\ script = "app.py"
    /\ app_pc = "validated"
    /\ shown' = map_error
    /\ map_error' = <<>>
    /\ outcome' = IF validation_errors(form) # <<>> THEN "configuration" ELSE "stale"
    /\ app_pc' = "idle"
    /\ UNCHANGED <<pipeline, process, worker, script, form, processing, png_bytes,
                   csv_bytes, button_disabled, elapsed, polls, bucket, metadata,
                   object_key, submitted_by, lam_pc, status, steps, cfg, invoked>>

(* excel_file.seek(0); upload_excel_to_s3(...): lines 186-200; the new       *)
(* object triggers the Lambda                                                *)
UploadExcel ==
    /\ script = "app.py"
    /\ app_pc = "uploading"
    /\ object_key' = upload_key(form.excel_file)
    /\ bucket' = {upload_key(form.excel_file)}
    /\ metadata' = app_metadata(form)
    /\ submitted_by' = "app.py"
    /\ lam_pc' = "triggered"
    /\ app_pc' = "polling"
    /\ UNCHANGED <<pipeline, process, worker, script, form, processing, map_error,
                   png_bytes, csv_bytes, button_disabled, shown, outcome, elapsed, polls,
                   status, steps, cfg, invoked>>

(* One turn of the polling loop, lines 208-225.  On an error payload the     *)
(* turn sets processing back, leaves the payload's error in map_error and    *)
(* breaks (lines 212-217); on both results it breaks and the results are     *)
(* downloaded and stored (lines 221-222, 239-246); else it sleeps and        *)
(* counts.                                                                   *)
Poll ==
    /\ script = "app.py"
    /\ app_pc = "polling"
    /\ elapsed < timeout
    /\ polls' = polls + 1
    /\ IF error_s3_key(object_key) \in bucket
       THEN /\ processing' = FALSE
            /\ map_error' = <<"worker error">>
            /\ app_pc' = "broke"
            /\ UNCHANGED <<png_bytes, csv_bytes, elapsed>>
       ELSE IF /\ result_s3_key(object_key) \in bucket
               /\ unassigned_s3_key(object_key) \in bucket
       THEN /\ png_bytes' = result_s3_key(object_key)
            /\ csv_bytes' = unassigned_s3_key(object_key)
            /\ app_pc' = "stored"
            /\ UNCHANGED <<processing, map_error, elapsed>>
       ELSE /\ elapsed' = elapsed + 1
            /\ UNCHANGED <<processing, map_error, png_bytes, csv_bytes, app_pc>>
    /\ UNCHANGED <<pipeline, process, worker, script, form, button_disabled, shown,
                   outcome, bucket, metadata, object_key, submitted_by, lam_pc, status,
                   steps, cfg, invoked>>

(* after the break on an error payload, lines 233-236: the error is shown,   *)
(* map_error is cleared, the run stops                                       *)
ShowWorkerError ==
    /\ script = "app.py"
    /\ app_pc = "broke"
    /\ shown' = map_error
    /\ map_error' = <<>>
    /\ outcome' = "worker"
    /\ app_pc' = "idle"
    /\ UNCHANGED <<pipeline, process, worker, script, form, processing, png_bytes,
                   csv_bytes, button_disabled, elapsed, polls, bucket, metadata,
                   object_key, submitted_by, lam_pc, status, steps, cfg, invoked>>

(* st.success("Map ready for download"); processing = False; st.rerun():     *)
(* lines 248-250; the rerun renders the button from processing               *)
MapReady ==
    /\ script = "app.py"
    /\ app_pc = "stored"
    /\ processing' = FALSE
    /\ button_disabled' = FALSE
    /\ shown' = <<>>
    /\ outcome' = "success"
    /\ app_pc' = "idle"
    /\ UNCHANGED <<pipeline, process, worker, script, form, map_error, png_bytes,
                   csv_bytes, elapsed, polls, bucket, metadata, object_key,
                   submitted_by, lam_pc, status, steps, cfg, invoked>>

(* the else of the while, line 228: processing is set back *)
Timeout ==
    /\ script = "app.py"
    /\ app_pc = "polling"
    /\ elapsed >= timeout
    /\ processing' = FALSE
    /\ app_pc' = "timed out"
    /\ UNCHANGED <<pipeline, process, worker, script, form, map_error, png_bytes,
                   csv_bytes, button_disabled, shown, outcome, elapsed, polls, bucket,
                   metadata, object_key, submitted_by, lam_pc, status, steps, cfg, invoked>>

(* lines 229-231: the message goes into map_error and the run stops before   *)
(* any message is shown                                                      *)
TimeoutStop ==
    /\ script = "app.py"
    /\ app_pc = "timed out"
    /\ map_error' = <<"Timed out waiting for Lambda to generate the map.">>
    /\ outcome' = "timeout"
    /\ app_pc' = "idle"
    /\ UNCHANGED <<pipeline, process, worker, script, form, processing, png_bytes,
                   csv_bytes, button_disabled, shown, elapsed, polls, bucket, metadata,
                   object_key, submitted_by, lam_pc, status, steps, cfg, invoked>>

(* A script run of app.py that no click on "Generate Map" caused (the user   *)
(* edits a widget): the page is drawn again, the button from processing      *)
(* (lines 98-103); generate_button is False and the Main Logic is skipped.   *)
(* It comes on a page whose run has ended, or while a run is under way:      *)
(* Streamlit then ends that run at its next st call (while the page is       *)
(* drawn, at st.spinner of lines 163, 189 and 206, at st.error of lines 181  *)
(* and 234, at status_container.text of line 210, at status_container.empty  *)
(* of lines 229 and 239, at st.success of line 248) and the session state    *)
(* stays as the run left it.                                                 *)
Rerun ==
    /\ script = "app.py"
    /\ \/ app_pc = "idle" /\ outcome # "none"
       \/ app_pc \in {"running", "validated", "uploading", "polling", "broke",
                      "stored", "timed out"}
    /\ button_disabled' = processing
    /\ shown' = <<>>
    /\ outcome' = "none"
    /\ app_pc' = "idle"
    /\ elapsed' = 0
    /\ polls' = 0
    /\ UNCHANGED <<pipeline, process, worker, script, form, processing, map_error,
                   png_bytes, csv_bytes, bucket, metadata, object_key,
                   submitted_by, lam_pc, status, steps, cfg, invoked>>

(* app_aws.py, the messages of lines 105-116, in the order of the tests *)
aws_blank_errors(f) ==
    IF f.excel_file = NoFile THEN <<"Please upload an Excel file.">>
    ELSE IF f.geog_col_label = "" THEN <<"Please enter a Zip Code column label.">>
    ELSE IF f.value_col_label = "" THEN <<"Please enter a Value column label.">>
    ELSE <<>>

(* app_aws.py: a click on "Generate Map" with the form f on the page (of f   *)
(* the page has the two labels, the title, the file and the checkbox).  The  *)
(* button has no callback: the run of the click draws it from processing as  *)
(* the run before left it (lines 57-60), then goes through the Main Logic    *)
(* up to the upload, lines 103-116; nothing of the file is looked at.        *)
AwsClick(f) ==
    /\ script = "app_aws.py"
    /\ app_pc = "idle"
    /\ outcome = "none"
    /\ ~button_disabled
    /\ form' = f
    /\ button_disabled' = processing
    /\ IF processing
       THEN /\ shown' = <<>>
            /\ outcome' = "none"
            /\ app_pc' = "idle"
            /\ UNCHANGED processing
       ELSE IF aws_blank_errors(f) # <<>>
       THEN /\ processing' = FALSE
            /\ shown' = aws_blank_errors(f)
            /\ outcome' = "configuration"
            /\ app_pc' = "idle"
       ELSE /\ processing' = TRUE
            /\ shown' = <<>>
            /\ outcome' = "none"
            /\ app_pc' = "uploading"
    /\ elapsed' = 0
    /\ polls' = 0
    /\ bucket' = {}
    /\ metadata' = <<>>
    /\ object_key' = NoKey
    /\ submitted_by' = "nobody"
    /\ lam_pc' = "idle"
    /\ status' = "none"
    /\ steps' = <<>>
    /\ cfg' = <<>>
    /\ invoked' = FALSE
    /\ UNCHANGED <<pipeline, process, worker, script, map_error, png_bytes, csv_bytes>>

(* app_aws.py's upload_excel_to_s3, lines 118-135 and 65-84; the new object  *)
(* triggers the Lambda                                                       *)
UploadExcelAws ==
    /\ script = "app_aws.py"
    /\ app_pc = "uploading"
    /\ object_key' = upload_key(form.excel_file)
    /\ bucket' = {upload_key(form.excel_file)}
    /\ metadata' = aws_metadata(form)
    /\ submitted_by' = "app_aws.py"
    /\ lam_pc' = "triggered"
    /\ app_pc' = "polling"
    /\ UNCHANGED <<pipeline, process, worker, script, form, processing, map_error,
                   png_bytes, csv_bytes, button_disabled, shown, outcome, elapsed, polls,
                   status, steps, cfg, invoked>>

(* app_aws.py's polling loop and what follows its break, lines 137-160.     *)
(* A turn looks for the two results only, never for the error payload; the   *)
(* turn that finds them breaks and the results are downloaded and stored     *)
(* (lines 138-141, 153-157); after st.success (line 159) processing is set   *)
(* back and the run ends without a rerun, the button stays as drawn.         *)
PollAws ==
    /\ script = "app_aws.py"
    /\ \/ app_pc = "polling" /\ elapsed < timeout
       \/ app_pc = "stored"
    /\ IF app_pc = "stored"
       THEN /\ processing' = FALSE
            /\ shown' = <<>>
            /\ outcome' = "success"
            /\ app_pc' = "idle"
            /\ UNCHANGED <<png_bytes, csv_bytes, elapsed, polls>>
       ELSE IF /\ result_s3_key(object_key) \in bucket
               /\ unassigned_s3_key(object_key) \in bucket
       THEN /\ png_bytes' = result_s3_key(object_key)
            /\ csv_bytes' = unassigned_s3_key(object_key)
            /\ app_pc' = "stored"
            /\ polls' = polls + 1
            /\ UNCHANGED <<processing, shown, outcome, elapsed>>
       ELSE /\ elapsed' = elapsed + 1
            /\ polls' = polls + 1
            /\ UNCHANGED <<processing, png_bytes, csv_bytes, shown, outcome, app_pc>>
    /\ UNCHANGED <<pipeline, process, worker, script, form, map_error, button_disabled,
                   bucket, metadata, object_key, submitted_by, lam_pc, status, steps,
                   cfg, invoked>>

(* the else of app_aws.py's while, lines 147-150 *)
TimeoutAws ==
    /\ script = "app_aws.py"
    /\ app_pc = "polling"
    /\ elapsed >= timeout
    /\ processing' = FALSE
    /\ shown' = <<"Timed out waiting for Lambda to generate the map.">>
    /\ outcome' = "timeout"
    /\ app_pc' = "idle"
    /\ UNCHANGED <<pipeline, process, worker, script, form, map_error, png_bytes,
                   csv_bytes, button_disabled, elapsed, polls, bucket, metadata,
                   object_key, submitted_by, lam_pc, status, steps, cfg, invoked>>

(* A script run of app_aws.py that finds processing as the run before left   *)
(* it: the button is drawn from it (lines 57-60) and the Main Logic, which   *)
(* asks for "generate_button and not processing" (line 103), is skipped      *)
(* when a run under way was ended by it (at st.spinner, line 119, at         *)
(* progress_bar.progress, lines 139 and 144, or at st.success, line 159).    *)
RerunAws ==
    /\ script = "app_aws.py"
    /\ \/ app_pc = "idle" /\ outcome # "none"
       \/ app_pc \in {"uploading", "polling", "stored"}
    /\ button_disabled' = processing
    /\ shown' = <<>>
    /\ outcome' = "none"
    /\ app_pc' = "idle"
    /\ elapsed' = 0
    /\ polls' = 0
    /\ UNCHANGED <<pipeline, process, worker, script, form, processing, map_error,
                   png_bytes, csv_bytes, bucket, metadata, object_key,
                   submitted_by, lam_pc, status, steps, cfg, invoked>>

(* the objects another client puts: a workbook with a plain name, the two    *)
(* columns named as they are                                                 *)
ClientForms == {f \in Forms : /\ f.excel_file \in PlainFiles
                              /\ f.geog_col_label = "ZIP"
                              /\ f.value_col_label = "Value"}

(* an object put under uploads/ by another client, with the metadata of      *)
(* app.py less the field k: the event lambda_handler gets for it             *)
PutObject(f, k) ==
    /\ app_pc = "idle"
    /\ outcome = "none"
    /\ lam_pc = "idle"
    /\ submitted_by = "nobody"
    /\ f.excel_file # NoFile
    /\ form' = f
    /\ object_key' = <<UPLOAD_PREFIX>> \o f.excel_file.name
    /\ bucket' = {<<UPLOAD_PREFIX>> \o f.excel_file.name}
    /\ metadata' = [q \in MetadataKeys \ {k} |-> app_metadata(f)[q]]
    /\ submitted_by' = "another client"
    /\ lam_pc' = "triggered"
    /\ UNCHANGED <<pipeline, process, worker, script, processing, map_error, png_bytes,
                   csv_bytes, button_disabled, shown, outcome, app_pc, elapsed, polls,
                   status, steps, cfg, invoked>>

(* except Exception as e, lines 179-194: the error payload is written when   *)
(* bucket_name and object_key are known, by a put_object that may raise in   *)
(* its turn, and then no status is returned                                  *)
ExceptBlock ==
    \E written \in BOOLEAN :
        /\ bucket' = IF written THEN bucket \cup {error_key(object_key)} ELSE bucket
        /\ status' = IF written THEN "500" ELSE "raised"
        /\ lam_pc' = "returned"

(* lines 77-90: the imports, the event record, the test of the extension;    *)
(* an exception of the imports finds bucket_name and object_key still None   *)
LambdaStart ==
    /\ lam_pc = "triggered"
    /\ \E imported \in BOOLEAN :
          IF ~imported
          THEN status' = "500" /\ lam_pc' = "returned"
          ELSE IF ~endswith(object_key, ".xlsx")
          THEN status' = "400" /\ lam_pc' = "returned"
          ELSE status' = status /\ lam_pc' = "started"
    /\ UNCHANGED <<pipeline, process, worker, app, bucket, metadata, object_key,
                   submitted_by, steps, cfg, invoked>>

(* lines 93-133: reference files, the workbook, read_excel, the metadata *)
LambdaReadConfig ==
    /\ lam_pc = "started"
    /\ \E ok \in BOOLEAN :
          IF ok /\ form.excel_file.readable /\ "selected_colors" \in DOMAIN metadata
          THEN /\ cfg' = read_config(metadata)
               /\ lam_pc' = "configured"
               /\ UNCHANGED <<bucket, status>>
          ELSE ExceptBlock /\ UNCHANGED cfg
    /\ UNCHANGED <<pipeline, process, worker, app, metadata, object_key, submitted_by,
                   steps, invoked>>

(* lines 139-152: generate_map(...) is called, then fig_to_png_bytes *)
InvokeGenerateMap ==
    /\ lam_pc = "configured"
    /\ invoked' = TRUE
    /\ \E ok \in BOOLEAN :
          IF ok THEN lam_pc' = "generated" /\ UNCHANGED <<bucket, status>>
          ELSE ExceptBlock
    /\ UNCHANGED <<pipeline, process, worker, app, metadata, object_key, submitted_by,
                   steps, cfg>>

(* result_key = upload_result_png(...) *)
UploadPng ==
    /\ lam_pc = "generated"
    /\ \E ok \in BOOLEAN :
          /\ steps' = Append(steps, [op |-> "png", ok |-> ok])
          /\ IF ok
             THEN /\ bucket' = bucket \cup {result_key(object_key)}
                  /\ lam_pc' = "png written"
                  /\ UNCHANGED status
             ELSE ExceptBlock
    /\ UNCHANGED <<pipeline, process, worker, app, metadata, object_key, submitted_by,
                   cfg, invoked>>

(* unassigned_key = upload_unassigned_csv(...) *)
UploadCsv ==
    /\ lam_pc = "png written"
    /\ \E ok \in BOOLEAN :
          /\ steps' = Append(steps, [op |-> "csv", ok |-> ok])
          /\ IF ok
             THEN /\ bucket' = bucket \cup {unassigned_key(object_key)}
                  /\ lam_pc' = "csv written"
                  /\ UNCHANGED status
             ELSE ExceptBlock
    /\ UNCHANGED <<pipeline, process, worker, app, metadata, object_key, submitted_by,
                   cfg, invoked>>

(* delete_s3_object(bucket_name, object_key); return {"statusCode": 200, ...} *)
DeleteExcel ==
    /\ lam_pc = "csv written"
    /\ \E ok \in BOOLEAN :
          /\ steps' = Append(steps, [op |-> "delete", ok |-> ok])
          /\ IF ok
             THEN /\ bucket' = bucket \ {object_key}
                  /\ status' = "200"
                  /\ lam_pc' = "returned"
             ELSE ExceptBlock
    /\ UNCHANGED <<pipeline, process, worker, app, metadata, object_key, submitted_by,
                   cfg, invoked>>

JobNext ==
    \/ \E f \in Forms : GenerateClick(f)
    \/ MainLogic
    \/ ShowErrors
    \/ UploadExcel
    \/ Poll
    \/ ShowWorkerError
    \/ MapReady
    \/ Timeout
    \/ TimeoutStop
    \/ Rerun
    \/ \E f \in AwsForms : AwsClick(f)
    \/ UploadExcelAws
    \/ PollAws
    \/ TimeoutAws
    \/ RerunAws
    \/ \E f \in ClientForms : \E k \in MetadataKeys : PutObject(f, k)
    \/ LambdaStart
    \/ LambdaReadConfig
    \/ InvokeGenerateMap
    \/ UploadPng
    \/ UploadCsv
    \/ DeleteExcel

JobStart ==
    PipelineIdle /\ host = "lambda" /\ ProcessInit /\ WorkerInit /\ script \in Scripts /\ JobInit

JobSpec == JobStart /\ [][JobNext]_vars

(* if generate_button: lines 67-96 and 138-139.  A text_input gives "" when  *)
(* left blank, never None, so of the three tests only the one of the         *)
(* uploader can stop the run; then the shared state is made and the thread   *)
(* started.                                                                  *)
WorkerClick(f) ==
    /\ main_pc = "idle"
    /\ wform' = f
    /\ IF f.color_data_file = "none"
       THEN /\ page' = <<"Please upload an Excel file.">>
            /\ main_pc' = "stopped"
            /\ UNCHANGED <<thread_pc, result, error_message>>
       ELSE /\ page' = <<>>
            /\ result' = [fig |-> None]
            /\ error_message' = ""
            /\ thread_pc' = "started"
            /\ main_pc' = "stage 1"
    /\ UNCHANGED <<pipeline, process, job, map_done_event, conversion_event, error_event>>

(* map_worker, lines 104-114: read_excel and the two column tests, by exact  *)
(* name; an exception of read_excel goes to the except of lines 134-136      *)
ReadAndValidate ==
    /\ thread_pc = "started"
    /\ LET msg == IF wform.color_data_file # "workbook" THEN "read_excel raised"
                  ELSE IF wform.zip_col_label \notin Columns THEN "ZIP column not found."
                  ELSE IF wform.value_col_label \notin Columns THEN "Value column not found."
                  ELSE ""
       IN  IF msg # ""
           THEN /\ error_message' = msg
                /\ error_event' = TRUE
                /\ thread_pc' = "finished"
           ELSE /\ thread_pc' = "generating"
                /\ UNCHANGED <<error_message, error_event>>
    /\ UNCHANGED <<pipeline, process, job, wform, main_pc, result, map_done_event,
                   conversion_event, page>>

(* lines 117-127: generate_map returns or raises *)
WorkerGenerateMap ==
    /\ thread_pc = "generating"
    /\ \E ok \in BOOLEAN :
          IF ok
          THEN /\ result' = [k \in DOMAIN result \cup {"fig", "unassigned_df"} |->
                                IF k = "fig" THEN "fig"
                                ELSE IF k = "unassigned_df" THEN "unassigned_df"
                                ELSE result[k]]
               /\ map_done_event' = TRUE
               /\ thread_pc' = "converting"
               /\ UNCHANGED <<error_message, error_event>>
          ELSE /\ error_message' = "generate_map raised"
               /\ error_event' = TRUE
               /\ thread_pc' = "finished"
               /\ UNCHANGED <<result, map_done_event>>
    /\ UNCHANGED <<pipeline, process, job, wform, main_pc, conversion_event, page>>

(* lines 130-132: fig_to_png_bytes returns or raises *)
WorkerConvert ==
    /\ thread_pc = "converting"
    /\ \E ok \in BOOLEAN :
          IF ok
          THEN /\ result' = [k \in DOMAIN result \cup {"fig_bytes"} |->
                                IF k = "fig_bytes" THEN "fig_bytes" ELSE result[k]]
               /\ conversion_event' = TRUE
               /\ UNCHANGED <<error_message, error_event>>
          ELSE /\ error_message' = "fig_to_png_bytes raised"
               /\ error_event' = TRUE
               /\ UNCHANGED <<result, conversion_event>>
    /\ thread_pc' = "finished"
    /\ UNCHANGED <<pipeline, process, job, wform, main_pc, map_done_event, page>>

(* the loop of line 148 is left *)
Stage1Done ==
    /\ main_pc = "stage 1"
    /\ map_done_event \/ error_event
    /\ main_pc' = "stage 2"
    /\ UNCHANGED <<pipeline, process, job, wform, thread_pc, result, map_done_event,
                   conversion_event, error_event, error_message, page>>

(* the loop of line 163 is left *)
Stage2Done ==
    /\ main_pc = "stage 2"
    /\ error_event \/ conversion_event
    /\ main_pc' = "plot_graph"
    /\ UNCHANGED <<pipeline, process, job, wform, thread_pc, result, map_done_event,
                   conversion_event, error_event, error_message, page>>

(* plot_graph() *)
PlotGraph ==
    /\ main_pc = "plot_graph"
    /\ page' = Append(page, IF error_event THEN error_message
                            ELSE IF result["fig"] # None THEN "figure"
                            ELSE "Map generation failed.")
    /\ main_pc' = "show_download_button"
    /\ UNCHANGED <<pipeline, process, job, wform, thread_pc, result, map_done_event,
                   conversion_event, error_event, error_message>>

(* show_download_button(): fig_bytes = result["fig_bytes"] raises KeyError   *)
(* when the dict has no such key                                             *)
ShowDownloadButton ==
    /\ main_pc = "show_download_button"
    /\ IF "fig_bytes" \notin DOMAIN result
       THEN /\ page' = Append(page, "KeyError: 'fig_bytes'")
            /\ main_pc' = "raised"
       ELSE /\ page' = Append(page, IF result["fig_bytes"] # None THEN "download button"
                                    ELSE "Map generation failed.")
            /\ main_pc' = "show_unassigned_df"
    /\ UNCHANGED <<pipeline, process, job, wform, thread_pc, result, map_done_event,
                   conversion_event, error_event, error_message>>

(* show_unassigned_df(): unassigned_df = result["unassigned_df"] *)
ShowUnassignedDf ==
    /\ main_pc = "show_unassigned_df"
    /\ IF "unassigned_df" \notin DOMAIN result
       THEN /\ page' = Append(page, "KeyError: 'unassigned_df'")
            /\ main_pc' = "raised"
       ELSE /\ page' = Append(page, IF result["unassigned_df"] # None THEN "report"
                                    ELSE "Map generation failed.")
            /\ main_pc' = "ended"
    /\ UNCHANGED <<pipeline, process, job, wform, thread_pc, result, map_done_event,
                   conversion_event, error_event, error_message>>

(* the steps of map_worker, and those of the script run after the click *)
WorkerThread == ReadAndValidate \/ WorkerGenerateMap \/ WorkerConvert
MainThread == Stage1Done \/ Stage2Done \/ PlotGraph \/ ShowDownloadButton \/ ShowUnassignedDf

WorkerNext ==
    \/ \E f \in WorkerForms : WorkerClick(f)
    \/ ReadAndValidate
    \/ WorkerGenerateMap
    \/ WorkerConvert
    \/ Stage1Done
    \/ Stage2Done
    \/ PlotGraph
    \/ ShowDownloadButton
    \/ ShowUnassignedDf

WorkerStart ==
    PipelineIdle /\ host = "streamlit" /\ ProcessInit /\ script = "app.py" /\ JobInit /\ WorkerInit

(* the worker is a thread of its own and the main thread polls the events    *)
(* every 0.3 to 0.5 s: each of the two goes on running                       *)
WorkerSpec ==
    /\ WorkerStart
    /\ [][WorkerNext]_vars
    /\ WF_vars(WorkerThread)
    /\ WF_vars(MainThread)


-----------------------------------------------------------------------------
(* Vocabulary of the properties *)

UnitKeys == {zip_gdf[i].ZIP_CODE : i \in 1..Len(zip_gdf)}

(* the input rows whose normalized key is zip, as positions in the table *)
InputRows(zip) == {j \in 1..Len(norm_df) : norm_df[j].key = zip}

(* the input rows with that key that carry a value *)
ValuedRows(zip) == {j \in InputRows(zip) : norm_df[j].value # NaN}

(* the rows of the working set that belong to a unit *)
UnitRows(zip) == {n \in 1..Len(gdf) : gdf[n].ZIP_CODE = zip}

Flagged(n) == originally_unassigned_mask[gdf[n].idx]

ReportRows(zip) == {k \in 1..Len(unassigned_df) : unassigned_df[k].ZIP_CODE = zip}

RECURSIVE SumOver(_, _)
SumOver(f, S) == IF S = {} THEN 0
                 ELSE LET x == CHOOSE y \in S : TRUE IN f[x] + SumOver(f, S \ {x})

WholeSet == {"joined", "masked", "imputed", "reported"}        \* gdf holds every joined row
AfterMask == {"masked", "imputed", "reported", "filtered", "relocated", "states_loaded",
              "clipped", "styled", "raised", "rendered", "done"}
AfterReport == AfterMask \ {"masked", "imputed"}

-----------------------------------------------------------------------------
(* C1. Join cardinality: the joined working set holds every reference unit   *)
(* exactly once, so its length is the number of reference units, whatever    *)
(* the table (duplicate keys included).                                      *)
C1_JoinCardinality ==
    pc = "joined" =>
        /\ Len(gdf) = Len(zip_gdf)
        /\ \A zip \in UnitKeys : Cardinality(UnitRows(zip)) = 1

(* C2. Duplicate keys are last-wins: the joined unit of a key that several   *)
(* input rows share carries the value of the last of them in table order.    *)
C2_LastWins ==
    pc = "joined" =>
        \A n \in 1..Len(gdf) :
            InputRows(gdf[n].ZIP_CODE) # {} =>
                gdf[n].value = norm_df[SetMax(InputRows(gdf[n].ZIP_CODE))].value

(* C3. Unassigned-count invariant: the report has as many rows as there are  *)
(* reference units with no matching value after the join.                    *)
C3_UnassignedCount ==
    pc \in AfterReport =>
        Len(unassigned_df) = Cardinality({zip \in UnitKeys : ValuedRows(zip) = {}})

-----------------------------------------------------------------------------
(* C4 *)

RECURSIVE Kth(_, _)
(* the k-th smallest element of a set of numbers *)
Kth(S, k) == IF k = 1 THEN SetMin(S) ELSE Kth(S \ {SetMin(S)}, k - 1)

(* the input row a row of the whole working set was joined with, 0 for none: *)
(* the k-th row of a unit comes from the k-th input row with the unit's key  *)
SourceRow(n) ==
    LET zip == gdf[n].ZIP_CODE
        k == Cardinality({m \in UnitRows(zip) : m <= n})
    IN  IF InputRows(zip) = {} THEN 0 ELSE Kth(InputRows(zip), k)

NullAfterJoin(n) == SourceRow(n) = 0 \/ norm_df[SourceRow(n)].value = NaN

(* the flags a unit must carry: one when no input row has its key, else one  *)
(* for each input row with its key and no value                              *)
ExpectedFlags(zip) ==
    IF InputRows(zip) = {} THEN 1
    ELSE Cardinality(InputRows(zip) \ ValuedRows(zip))

FlagsSet == {l \in DOMAIN originally_unassigned_mask : originally_unassigned_mask[l]}

(* C4 as claimed: the flag of a unit is set exactly when no input row's      *)
(* normalized key equals the unit's key.                                     *)
C4_FlagIffNoInputRow ==
    pc \in {"masked", "imputed", "reported"} =>
        \A n \in 1..Len(gdf) : Flagged(n) <=> InputRows(gdf[n].ZIP_CODE) = {}

C4_FlagState ==
    /\ pc \in {"masked", "imputed", "reported"} =>
          \A n \in 1..Len(gdf) : Flagged(n) <=> NullAfterJoin(n)
    /\ pc \in AfterMask =>
          Cardinality(FlagsSet) = SumOver([zip \in UnitKeys |-> ExpectedFlags(zip)], UnitKeys)
    /\ pc \in AfterReport =>
          /\ \A zip \in UnitKeys : Cardinality(ReportRows(zip)) = ExpectedFlags(zip)
          /\ Len(unassigned_df) = Cardinality(FlagsSet)

C4_FlagKept ==
    pc \in AfterMask => originally_unassigned_mask' = originally_unassigned_mask

(* C4, amended: the flag is kept per joined row and is set exactly when the  *)
(* row has no value after the join (no input row has the unit's key, or the  *)
(* input row it was joined with has an empty value); it is computed once     *)
(* before the imputation and never changes afterwards, and the report holds  *)
(* one row for each flagged row and none for any other row.                  *)
C4_FlagIsNullAfterJoin == []C4_FlagState /\ [][C4_FlagKept]_vars

(* a unit matched by a row without a value is reported, with the value the   *)
(* imputation gave it, while a unit matched with a value is not reported     *)
C4_Witness ==
    /\ pc = "done"
    /\ auto_fill_unassigned
    /\ \E zip \in UnitKeys :
          /\ InputRows(zip) # {}
          /\ \E k \in ReportRows(zip) : unassigned_df[k].assigned_value # Unassigned
    /\ \E zip \in UnitKeys : ValuedRows(zip) # {} /\ ReportRows(zip) = {}

-----------------------------------------------------------------------------
(* C5, C6 *)

(* the ZIP codes, as numbers, of the units some input row gives a value *)
AssignedZips == {to_int(zip) : zip \in {u \in UnitKeys : ValuedRows(u) # {}}}

(* the value of an assigned ZIP: of its last input row that has one *)
ValueOfZip(z) ==
    LET zip == CHOOSE u \in UnitKeys : to_int(u) = z
    IN  norm_df[SetMax(ValuedRows(zip))].value

Distances(z) == {Abs(k - z) : k \in AssignedZips} \cap (1..500)

(* C5. Imputation correctness: with auto-fill on, an originally unassigned   *)
(* ZIP z with an assigned ZIP at distance 1..500 receives the value of the   *)
(* assigned ZIP at the smallest such distance d, that of z-d when z-d and    *)
(* z+d are both assigned.                                                    *)
C5_NearestLowerFirst ==
    (pc \in {"imputed", "reported"} /\ auto_fill_unassigned) =>
        \A n \in 1..Len(gdf) :
            LET z == to_int(gdf[n].ZIP_CODE)
            IN  (Flagged(n) /\ Distances(z) # {}) =>
                    LET d == SetMin(Distances(z))
                    IN  gdf[n].value = IF (z - d) \in AssignedZips
                                       THEN ValueOfZip(z - d)
                                       ELSE ValueOfZip(z + d)

(* a tie: z-d and z+d carry different values, and z got the lower one's *)
C5_Witness ==
    /\ pc = "imputed"
    /\ auto_fill_unassigned
    /\ \E n \in 1..Len(gdf) :
          LET z == to_int(gdf[n].ZIP_CODE)
          IN  /\ Flagged(n)
              /\ Distances(z) # {}
              /\ LET d == SetMin(Distances(z))
                 IN  /\ (z - d) \in AssignedZips
                     /\ (z + d) \in AssignedZips
                     /\ ValueOfZip(z - d) # ValueOfZip(z + d)
                     /\ gdf[n].value = ValueOfZip(z - d)

(* C6. Imputation exhaustion: an originally unassigned ZIP resolves to       *)
(* "unassigned" if and only if no assigned ZIP lies at distance 1..500.      *)
C6_SentinelIffNoneWithin500 ==
    (pc \in {"imputed", "reported"} /\ auto_fill_unassigned) =>
        \A n \in 1..Len(gdf) :
            Flagged(n) =>
                (gdf[n].value = Unassigned <=> Distances(to_int(gdf[n].ZIP_CODE)) = {})

(* one ZIP filled from its only neighbour, at distance exactly 500, and one  *)
(* left "unassigned" with its nearest neighbour at distance 501              *)
C6_Witness ==
    /\ pc = "imputed"
    /\ auto_fill_unassigned
    /\ \E n \in 1..Len(gdf) :
          LET z == to_int(gdf[n].ZIP_CODE)
          IN  /\ Flagged(n)
              /\ Distances(z) # {}
              /\ SetMin(Distances(z)) = 500
              /\ gdf[n].value # Unassigned
    /\ \E n \in 1..Len(gdf) :
          LET z == to_int(gdf[n].ZIP_CODE)
          IN  /\ Flagged(n)
              /\ 501 \in {Abs(k - z) : k \in AssignedZips}
              /\ \A k \in AssignedZips : Abs(k - z) >= 501
              /\ gdf[n].value = Unassigned

-----------------------------------------------------------------------------
(* C7, C8, C9 *)

(* the auto-fill ran and left some unit with the string "unassigned" *)
SentinelResolved ==
    /\ auto_fill_unassigned
    /\ \E k \in 1..Len(unassigned_df) : unassigned_df[k].assigned_value = Unassigned

(* C7. Imputation exhaustion is not an error: a run in which some unit       *)
(* resolves to "unassigned" completes the sort of the distinct values, for   *)
(* values of any comparable type.                                            *)
C7_ExhaustionCompletes == SentinelResolved => error # "TypeError"

(* C8. Style assignment: the distinct values are sorted ascending, and the   *)
(* value at sorted index i gets palette[i mod N] and hatches[i div N].       *)
C8_StyleAssignment ==
    pc \in {"styled", "done"} =>
        LET N == Len(map_colors)
        IN  /\ Range(unique_vals) = {gdf[n].value : n \in 1..Len(gdf)} \ {NaN}
            /\ \A i, j \in 1..Len(unique_vals) : i < j => unique_vals[i] < unique_vals[j]
            /\ DOMAIN style_map = Range(unique_vals)
            /\ \A i \in 0..(Len(unique_vals) - 1) :
                  style_map[unique_vals[i + 1]] =
                      << map_colors[(i % N) + 1], hatches[(i \div N) + 1] >>

(* N = 3 and the values [A,B,C,D,E]:                                         *)
(* A:(p0,h0), B:(p1,h0), C:(p2,h0), D:(p0,h1), E:(p1,h1)                     *)
C8_Witness ==
    /\ pc = "styled"
    /\ map_colors = <<"#1579b3", "#fb9331", "#92e091">>
    /\ unique_vals = <<1, 2, 3, 4, 5>>
    /\ style_map[1] = <<"#1579b3", "">>
    /\ style_map[2] = <<"#fb9331", "">>
    /\ style_map[3] = <<"#92e091", "">>
    /\ style_map[4] = <<"#1579b3", "//">>
    /\ style_map[5] = <<"#fb9331", "//">>

(* C9. Style capacity exhaustion wraps and never fails: the Style Classifier *)
(* gives every value a style and does not raise, whatever the number of      *)
(* distinct values.                                                          *)
C9_StyleNeverRaises == error # "IndexError"

-----------------------------------------------------------------------------
(* C10 *)

RowOrders(n) == {p \in [1..n -> 1..n] : \A i, j \in 1..n : i # j => p[i] # p[j]}

AdjacentSwaps(n) ==
    {[i \in 1..n |-> IF i = k THEN k + 1 ELSE IF i = k + 1 THEN k ELSE i] : k \in 1..(n - 1)}

(* the reorderings of a table that are compared: all of them for a table of  *)
(* up to MaxRows rows, the exchanges of two adjacent rows for a longer one   *)
Orders(t) == IF Len(t) <= MaxRows THEN RowOrders(Len(t)) ELSE AdjacentSwaps(Len(t))

Reordered(t, p) == [i \in 1..Len(t) |-> t[p[i]]]

(* rows that share a normalized key keep their relative order *)
KeepsKeyOrder(t, p) ==
    \A i, j \in 1..Len(t) :
        (i < j /\ zfill(t[p[i]].key, ZipWidth) = zfill(t[p[j]].key, ZipWidth)) => p[i] < p[j]

SameStyles(t) ==
    LET r == styles_of(t, vtype, map_colors, auto_fill_unassigned)
    IN  r.error = error /\ r.style_map = style_map

(* C10 as claimed: two tables that hold the same rows in a different order   *)
(* get the same style assignment.                                            *)
C10_AnyRowOrder ==
    pc \in {"styled", "raised"} =>
        \A p \in Orders(data_df) : SameStyles(Reordered(data_df, p))

(* C10, amended: two tables that hold the same rows in a different order, in *)
(* which the rows that share a normalized key keep their relative order, get *)
(* the same style assignment.                                                *)
C10_RowOrderKeepingKeyOrder ==
    pc \in {"styled", "raised"} =>
        \A p \in Orders(data_df) :
            KeepsKeyOrder(data_df, p) => SameStyles(Reordered(data_df, p))

(* a styled run on a table of rows with different keys, and a reordering of  *)
(* the table that the amended claim covers                                   *)
C10_Witness ==
    /\ pc = "styled"
    /\ DOMAIN style_map # {}
    /\ Len(data_df) >= 2
    /\ \E p \in Orders(data_df) :
          /\ KeepsKeyOrder(data_df, p)
          /\ Reordered(data_df, p) # data_df
          /\ SameStyles(Reordered(data_df, p))

-----------------------------------------------------------------------------
(* C11 *)

(* the place of a unit in the reference file *)
UnitPos(zip) == CHOOSE i \in 1..Len(zip_gdf) : zip_gdf[i].ZIP_CODE = zip

(* the value an originally unassigned ZIP resolves to: with auto-fill on and *)
(* an assigned ZIP within 500, the value of the nearest one (the lower one   *)
(* on a tie); "unassigned" with auto-fill off or with none within 500        *)
Resolved(zip) ==
    LET z == to_int(zip)
    IN  IF auto_fill_unassigned /\ Distances(z) # {}
        THEN LET d == SetMin(Distances(z))
             IN  IF (z - d) \in AssignedZips THEN ValueOfZip(z - d) ELSE ValueOfZip(z + d)
        ELSE Unassigned

(* the first row of the input table that carries a normalized key, 0 if none *)
FirstInputRow(zip) == IF InputRows(zip) = {} THEN 0 ELSE SetMin(InputRows(zip))

(* C11. Report content and order: each report row is (key, resolved value),  *)
(* the resolved value being the imputed value when the auto-fill ran and     *)
(* found a neighbour and "unassigned" otherwise; the rows are in the         *)
(* relative order of the reference units, not in input-table order.  (The    *)
(* report is looked at when it is built and when it is returned.)            *)
C11_ReportContentAndOrder ==
    pc \in {"reported", "done"} =>
        /\ \A k \in 1..Len(unassigned_df) :
              /\ unassigned_df[k].ZIP_CODE \in UnitKeys
              /\ unassigned_df[k].assigned_value = Resolved(unassigned_df[k].ZIP_CODE)
        /\ \A j, k \in 1..Len(unassigned_df) :
              j < k => UnitPos(unassigned_df[j].ZIP_CODE) <= UnitPos(unassigned_df[k].ZIP_CODE)

(* a report with an imputed row and an "unassigned" row, in which two keys   *)
(* stand in the order of their units and against the order of their rows in  *)
(* the input table                                                           *)
C11_Witness ==
    /\ pc = "reported"
    /\ auto_fill_unassigned
    /\ \E k \in 1..Len(unassigned_df) : unassigned_df[k].assigned_value \in Values
    /\ \E k \in 1..Len(unassigned_df) : unassigned_df[k].assigned_value = Unassigned
    /\ \E j, k \in 1..Len(unassigned_df) :
          /\ j < k
          /\ FirstInputRow(unassigned_df[k].ZIP_CODE) > 0
          /\ FirstInputRow(unassigned_df[j].ZIP_CODE) > FirstInputRow(unassigned_df[k].ZIP_CODE)

-----------------------------------------------------------------------------
(* C12 *)

(* the groups a row of the working set was plotted in *)
GroupsOf(n) == {i \in 1..Len(drawn) : gdf[n].idx \in drawn[i].rows}

(* C12. With auto-fill disabled, every unmatched unit keeps a null value     *)
(* through the pipeline, is reported as "unassigned", and is rendered on the *)
(* map under an "unassigned" category: the style assignment has an entry for *)
(* it and the unit is drawn with it.                                         *)
C12_NullReportedAndDrawn ==
    (pc \in {"rendered", "done"} /\ ~auto_fill_unassigned) =>
        \A n \in 1..Len(gdf) :
            Flagged(n) =>
                /\ gdf[n].value = NaN
                /\ \E k \in ReportRows(gdf[n].ZIP_CODE) :
                      unassigned_df[k].assigned_value = Unassigned
                /\ Unassigned \in DOMAIN style_map
                /\ \E i \in GroupsOf(n) : drawn[i].val = Unassigned

-----------------------------------------------------------------------------
(* C13 *)

(* a key of fewer than five characters with zeros put before it *)
Padded(raw) ==
    LET pad == 5 - Len(raw)
    IN  [j \in 1..5 |-> IF j <= pad THEN 0 ELSE raw[j - pad]]

(* the table keeps its rows and their values *)
RowsKept ==
    /\ Len(norm_df) = Len(data_df)
    /\ \A i \in 1..Len(data_df) : norm_df[i].value = data_df[i].value

(* the rows of the join are those of the units alone: a unit has one row per *)
(* input row with its key, or one row when it has none, and the input rows   *)
(* whose key is no unit's add nothing                                        *)
OnlyUnitsJoined ==
    Len(gdf) = SumOver([zip \in UnitKeys |->
                           IF InputRows(zip) = {} THEN 1 ELSE Cardinality(InputRows(zip))],
                       UnitKeys)

(* C13 as claimed: every normalized key has exactly five characters, the     *)
(* key being padded with "0" on the left; no row is dropped or added.        *)
C13_ExactlyFiveCharacters ==
    pc # "start" =>
        /\ RowsKept
        /\ \A i \in 1..Len(data_df) : Len(norm_df[i].key) = 5

(* C13, amended: a key of fewer than five characters is padded with "0" on   *)
(* the left to exactly five ("501" becomes "00501"), a key of five or more   *)
(* characters is unchanged ("90210"; a longer key stays longer); no row is   *)
(* dropped or added, and a key that is no unit's only fails to match in the  *)
(* join.                                                                     *)
C13_PaddedUpToFive ==
    /\ zfill(<<5,0,1>>, ZipWidth) = <<0,0,5,0,1>>
    /\ zfill(<<9,0,2,1,0>>, ZipWidth) = <<9,0,2,1,0>>
    /\ pc # "start" =>
          /\ RowsKept
          /\ \A i \in 1..Len(data_df) :
                norm_df[i].key = IF Len(data_df[i].key) < 5 THEN Padded(data_df[i].key)
                                 ELSE data_df[i].key
    /\ pc = "joined" => OnlyUnitsJoined

(* a three-character key padded into the key of a unit and joined with it,   *)
(* beside a six-character key left as it is, which matches no unit           *)
C13_Witness ==
    /\ pc = "joined"
    /\ \E i \in 1..Len(data_df) :
          /\ data_df[i].key = <<6,0,1>>
          /\ norm_df[i].key = <<0,0,6,0,1>>
          /\ \E n \in UnitRows(<<0,0,6,0,1>>) : gdf[n].value = data_df[i].value
    /\ \E i \in 1..Len(data_df) :
          /\ Len(data_df[i].key) = 6
          /\ norm_df[i].key = data_df[i].key
          /\ norm_df[i].key \notin UnitKeys

-----------------------------------------------------------------------------
(* C14 *)

(* the four windows: contiguous US, Alaska, Hawaii, Puerto Rico *)
Windows ==
    [CONUS |-> Box(-13000, 2400, -6000, 5000),
     AK    |-> Box(-17000, 5000, -13000, 7200),
     HI    |-> Box(-16100, 1800, -15400, 2300),
     PR    |-> Box(-6800, 1700, -6500, 1950)]

StrictlyInside(b, w) ==
    w.minx < b.minx /\ b.maxx < w.maxx /\ w.miny < b.miny /\ b.maxy < w.maxy

(* the windows a bounding box lies entirely inside *)
Admitting(b) == {r \in DOMAIN Windows : StrictlyInside(b, Windows[r])}

(* the geometry a unit has in the reference file *)
UnitGeometry(zip) == zip_gdf[UnitPos(zip)].geometry

(* the labels of the joined rows whose unit lies inside a window *)
AdmittedLabels ==
    LET J == merge_left(zip_gdf, norm_df)
    IN  {J[m].idx : m \in {k \in 1..Len(J) : Admitting(J[k].geometry) # {}}}

Labels == {gdf[n].idx : n \in 1..Len(gdf)}

AfterFilter == AfterReport \ {"reported"}

(* C14. Extent filter: a unit survives the filter if and only if its         *)
(* bounding box lies entirely, strictly, inside one of the four windows; a   *)
(* unit outside all four is dropped and is in no later stage's working set.  *)
C14_SurvivesIffInsideAWindow ==
    pc \in AfterFilter =>
        LET admitted == AdmittedLabels
        IN  /\ pc \in {"filtered", "relocated", "states_loaded"} => Labels = admitted
            /\ Labels \subseteq admitted
            /\ \A n \in 1..Len(gdf) : Admitting(UnitGeometry(gdf[n].ZIP_CODE)) # {}

(* at the end of a run: the Guam unit and the unit that straddles the edge   *)
(* of the Alaska window are gone, units of the four windows are there        *)
C14_Witness ==
    /\ pc = "rendered"
    /\ UnitRows(<<9,6,9,1,0>>) = {}
    /\ UnitRows(<<9,9,9,2,3>>) = {}
    /\ \A r \in DOMAIN Windows :
          \E n \in 1..Len(gdf) : r \in Admitting(UnitGeometry(gdf[n].ZIP_CODE))

-----------------------------------------------------------------------------
(* C15 *)

(* the window that admitted a unit of the filtered working set *)
RegionOf(zip) == CHOOSE r \in DOMAIN Windows : r \in Admitting(UnitGeometry(zip))

(* the transform of a region, applied once to a geometry *)
RegionTransform(r, b) ==
    IF r = "AK" THEN translate(scale(b, 45, 75), -5500, -2300)
    ELSE IF r = "HI" THEN translate(scale(b, 225, 225), 24700, -2400)
    ELSE IF r = "PR" THEN translate(scale(b, 375, 375), 17150, -4700)
    ELSE b

Relocated(zip) == RegionTransform(RegionOf(zip), UnitGeometry(zip))

(* C15. Relocation classification: every unit that passed the extent filter  *)
(* is classified on its pre-transform bounding box into the region whose     *)
(* window admitted it and receives that region's transform exactly once:     *)
(* Alaska scale (0.45, 0.75) then translate (-55, -23), Hawaii scale 2.25    *)
(* then translate (247, -24), Puerto Rico scale 3.75 then translate          *)
(* (171.5, -47), none for a unit of the contiguous-US window.                *)
C15_RegionTransformOnce ==
    /\ pc = "filtered" =>
          \A n \in 1..Len(gdf) : gdf[n].geometry = UnitGeometry(gdf[n].ZIP_CODE)
    /\ pc \in {"relocated", "states_loaded"} =>
          \A n \in 1..Len(gdf) : gdf[n].geometry = Relocated(gdf[n].ZIP_CODE)
    /\ pc \in {"clipped", "styled", "raised", "rendered", "done"} =>
          \A n \in 1..Len(gdf) :
              gdf[n].geometry = intersection(Relocated(gdf[n].ZIP_CODE), clip_box)

(* after the relocation: a moved unit of Alaska, of Hawaii and of Puerto     *)
(* Rico, and a unit of Maine, at Puerto Rico's longitudes, where it was      *)
C15_Witness ==
    /\ pc = "relocated"
    /\ \A r \in {"AK", "HI", "PR"} :
          \E n \in 1..Len(gdf) :
              /\ RegionOf(gdf[n].ZIP_CODE) = r
              /\ gdf[n].geometry = RegionTransform(r, UnitGeometry(gdf[n].ZIP_CODE))
              /\ gdf[n].geometry # UnitGeometry(gdf[n].ZIP_CODE)
    /\ \E n \in 1..Len(gdf) :
          /\ RegionOf(gdf[n].ZIP_CODE) = "CONUS"
          /\ -6800 < gdf[n].geometry.minx /\ gdf[n].geometry.minx < -6500
          /\ gdf[n].geometry = UnitGeometry(gdf[n].ZIP_CODE)

-----------------------------------------------------------------------------
(* C16 *)

Territories == {"VI", "GU", "MP", "AS"}

StateAbbrs == {states[k].STATE_ABBR : k \in 1..Len(states)}

(* the geometry a state has in the reference file *)
StateGeometry(abbr) ==
    state_boundaries[CHOOSE k \in 1..Len(state_boundaries) :
                        state_boundaries[k].STATE_ABBR = abbr].geometry

(* the geometry a state boundary must have before the clip: that of the file *)
(* under the transform of the ZIP units of its region, if it has one         *)
Registered(abbr) ==
    IF abbr \in {"AK", "HI", "PR"} THEN RegionTransform(abbr, StateGeometry(abbr))
    ELSE StateGeometry(abbr)

(* C16. State outlines stay registered with unit fills: the boundaries of    *)
(* AK, HI and PR receive exactly the transform of the ZIP units classified   *)
(* as Alaska, Hawaii and Puerto Rico, every other state boundary is left     *)
(* untransformed, and VI, GU, MP and AS are excluded in every run.           *)
C16_StatesRegistered ==
    /\ StateAbbrs \cap Territories = {}
    /\ pc = "states_loaded" =>
          /\ StateAbbrs = {state_boundaries[k].STATE_ABBR :
                               k \in 1..Len(state_boundaries)} \ Territories
          /\ \A k \in 1..Len(states) :
                states[k].geometry = Registered(states[k].STATE_ABBR)
          /\ \A n \in 1..Len(gdf) :
                LET r == RegionOf(gdf[n].ZIP_CODE)
                IN  r # "CONUS" =>
                       gdf[n].geometry = relocate_state(r, UnitGeometry(gdf[n].ZIP_CODE))
    /\ pc \in {"clipped", "styled", "raised", "rendered", "done"} =>
          \A k \in 1..Len(states) :
              states[k].geometry = intersection(Registered(states[k].STATE_ABBR), clip_box)

(* the state set before the clip: AK, HI and PR moved, NY where it was, no   *)
(* territory, beside a moved ZIP unit of each of the three regions           *)
C16_Witness ==
    /\ pc = "states_loaded"
    /\ {"AK", "HI", "PR", "NY"} \subseteq StateAbbrs
    /\ \A k \in 1..Len(states) :
          (states[k].geometry # StateGeometry(states[k].STATE_ABBR))
              <=> states[k].STATE_ABBR \in {"AK", "HI", "PR"}
    /\ \A r \in {"AK", "HI", "PR"} :
          \E n \in 1..Len(gdf) : RegionOf(gdf[n].ZIP_CODE) = r

-----------------------------------------------------------------------------
(* C17 *)

PlotWindow == Box(-13000, 1800, -6000, 5500)

EntirelyOutside(b, w) ==
    b.maxx < w.minx \/ w.maxx < b.minx \/ b.maxy < w.miny \/ w.maxy < b.miny

EntirelyInside(b, w) ==
    w.minx <= b.minx /\ b.maxx <= w.maxx /\ w.miny <= b.miny /\ b.maxy <= w.maxy

(* the rows that went into the clip, as [label, unit]: the joined rows the   *)
(* filter kept                                                               *)
RowsBeforeClip ==
    LET J == merge_left(zip_gdf, norm_df)
    IN  {[idx |-> J[m].idx, zip |-> J[m].ZIP_CODE] :
            m \in {k \in 1..Len(J) : Admitting(J[k].geometry) # {}}}

StatesBeforeClip ==
    {state_boundaries[k].STATE_ABBR : k \in 1..Len(state_boundaries)} \ Territories

AfterClip == {"clipped", "styled", "raised", "rendered", "done"}

(* C17. Clip correctness: after the clip, a geometry (of a unit or of a      *)
(* state boundary) that lay entirely outside the plot window                 *)
(* (-130,18)-(-60,55) is absent from the working set, and one that lay       *)
(* entirely inside is kept with its extent unchanged.                        *)
C17_ClipCorrect ==
    pc \in AfterClip =>
        /\ \A r \in RowsBeforeClip :
              LET b == Relocated(r.zip)
              IN  /\ EntirelyOutside(b, PlotWindow) => r.idx \notin Labels
                  /\ EntirelyInside(b, PlotWindow) =>
                        \E n \in 1..Len(gdf) : gdf[n].idx = r.idx /\ gdf[n].geometry = b
        /\ \A a \in StatesBeforeClip :
              LET b == Registered(a)
              IN  /\ EntirelyOutside(b, PlotWindow) => a \notin StateAbbrs
                  /\ EntirelyInside(b, PlotWindow) =>
                        \E k \in 1..Len(states) :
                            states[k].STATE_ABBR = a /\ states[k].geometry = b

(* after the clip: the Aleutian unit, moved below the window, is gone; a     *)
(* New York unit and the state of New York are as they were; the state of    *)
(* Alaska, moved across the window's edge, is cut                            *)
C17_Witness ==
    /\ pc = "clipped"
    /\ EntirelyOutside(Relocated(<<9,9,6,9,2>>), PlotWindow)
    /\ UnitRows(<<9,9,6,9,2>>) = {}
    /\ \E n \in UnitRows(<<1,0,0,0,1>>) : gdf[n].geometry = UnitGeometry(<<1,0,0,0,1>>)
    /\ \E k \in 1..Len(states) :
          states[k].STATE_ABBR = "NY" /\ states[k].geometry = StateGeometry("NY")
    /\ \E k \in 1..Len(states) :
          states[k].STATE_ABBR = "AK" /\ states[k].geometry # Registered("AK")

-----------------------------------------------------------------------------
(* C18 *)

(* the stages in their order; a run whose style classification raises stops  *)
(* there, at the place of that stage                                         *)
StageRank ==
    [start |-> 0, normalized |-> 1,
     joined |-> 2,          \* join
     masked |-> 3,          \* capture of the unassigned mask
     imputed |-> 4,         \* imputation
     reported |-> 5,        \* report building
     filtered |-> 6,        \* extent filter
     relocated |-> 7,       \* relocation of the units,
     states_loaded |-> 8,   \* and of the state boundaries
     clipped |-> 9,         \* clip
     styled |-> 10,         \* style classification
     raised |-> 10,
     rendered |-> 11,       \* rendering
     done |-> 12]

(* a step of a run completes the next stage, and no other *)
C18_NextStage == pc' # pc => StageRank[pc'] = StageRank[pc] + 1

(* what a completed stage has made of the whole working set *)
C18_WholeSet ==
    /\ pc = "joined" => \A zip \in UnitKeys : UnitRows(zip) # {}
    /\ pc = "masked" => DOMAIN originally_unassigned_mask = Labels
    /\ (pc = "imputed" /\ auto_fill_unassigned) =>
          \A n \in 1..Len(gdf) : gdf[n].value # NaN
    /\ pc = "reported" =>
          Len(unassigned_df) = Cardinality({n \in 1..Len(gdf) : Flagged(n)})
    /\ pc = "filtered" =>
          \A n \in 1..Len(gdf) :
              /\ Admitting(gdf[n].geometry) # {}
              /\ gdf[n].geometry = UnitGeometry(gdf[n].ZIP_CODE)
    /\ pc = "relocated" =>
          \A n \in 1..Len(gdf) :
              /\ Admitting(UnitGeometry(gdf[n].ZIP_CODE)) # {}
              /\ gdf[n].geometry = relocate(UnitGeometry(gdf[n].ZIP_CODE))
    /\ pc = "clipped" =>
          \A n \in 1..Len(gdf) : EntirelyInside(gdf[n].geometry, PlotWindow)
    /\ pc = "styled" =>
          DOMAIN style_map = {gdf[n].value : n \in 1..Len(gdf)} \ {NaN}
    /\ pc = "rendered" =>
          \A n \in 1..Len(gdf) : gdf[n].value # NaN => GroupsOf(n) # {}

(* C18. Stage ordering: in every run the stages execute strictly in the      *)
(* order join, capture of the unassigned mask, imputation, report building,  *)
(* extent filter, relocation, clip, style classification, rendering; each    *)
(* stage starts only after the previous one has consumed the whole working   *)
(* set, and the relocation classifies each unit on its pre-transform         *)
(* bounding box.                                                             *)
C18_StageOrder == []C18_WholeSet /\ [][C18_NextStage]_vars

(* the end of a run in which every stage had work to do: rows imputed and    *)
(* reported, a unit dropped by the filter, units relocated, a unit clipped   *)
(* away, two groups drawn                                                    *)
C18_Witness ==
    /\ pc = "done"
    /\ auto_fill_unassigned
    /\ \E k \in 1..Len(unassigned_df) : unassigned_df[k].assigned_value \in Values
    /\ UnitRows(<<9,6,9,1,0>>) = {}
    /\ UnitRows(<<9,9,6,9,2>>) = {}
    /\ \E n \in 1..Len(gdf) : gdf[n].geometry # UnitGeometry(gdf[n].ZIP_CODE)
    /\ Len(drawn) >= 2

-----------------------------------------------------------------------------
(* C24, C25 *)

(* the lookup as the units that had a value before the fill give it *)
OriginalLookup == [z \in AssignedZips |-> ValueOfZip(z)]

(* the ZIP codes, as numbers, of the originally unassigned rows *)
FlaggedZips == {to_int(gdf[n].ZIP_CODE) : n \in {m \in 1..Len(gdf) : Flagged(m)}}

(* the lookup is built once and is left as it is by every later stage *)
C24_LookupKept == (pc \in AfterMask \ {"masked"}) => assigned_lookup' = assigned_lookup

(* C24. Imputation does not cascade: the lookup is built once, from the      *)
(* units that had a value before the fill, and nothing changes it after; by  *)
(* the end of the fill every originally unassigned row holds the value that  *)
(* the originally assigned units alone determine for its ZIP, whatever the   *)
(* place of the row in the table, every other row holds its own value, and   *)
(* no unit that had no value of its own is a key of the lookup.              *)
C24_NoCascade ==
    /\ [](  (pc = "imputed" /\ auto_fill_unassigned) =>
              /\ assigned_lookup = OriginalLookup
              /\ \A n \in 1..Len(gdf) :
                    gdf[n].value = IF Flagged(n)
                                   THEN Resolved(gdf[n].ZIP_CODE)
                                   ELSE norm_df[SourceRow(n)].value
              /\ \A z \in FlaggedZips \ AssignedZips : z \notin DOMAIN assigned_lookup )
    /\ [][C24_LookupKept]_vars

(* a unit filled from an assigned unit, and a unit left "unassigned" within  *)
(* 500 of the filled one                                                     *)
C24_Witness ==
    /\ pc = "imputed"
    /\ auto_fill_unassigned
    /\ \E n, m \in 1..Len(gdf) :
          /\ Flagged(n) /\ Flagged(m)
          /\ gdf[n].value \in Values
          /\ gdf[m].value = Unassigned
          /\ Abs(to_int(gdf[n].ZIP_CODE) - to_int(gdf[m].ZIP_CODE)) \in 1..MaxRadius

(* the number of rows a unit has in the join with no value: one when no     *)
(* input row carries its key, else one for each such row whose value is null *)
NullRowsOf(zip) ==
    IF InputRows(zip) = {} THEN 1 ELSE Cardinality(InputRows(zip) \ ValuedRows(zip))

(* the units of the working set *)
UnitsLeft == {gdf[n].ZIP_CODE : n \in 1..Len(gdf)}

(* once it is built, no stage changes the report *)
C25_ReportKept == (pc \in AfterReport) => unassigned_df' = unassigned_df

(* C25. The report does not depend on the spatial stages: after the extent   *)
(* filter and after the clip, the report still has a row for every row of    *)
(* the join that had no value, for the units the filter or the clip took out *)
(* of the working set as for the others; and once built it is never changed. *)
C25_ReportIndependentOfSpatialStages ==
    /\ [](pc \in AfterFilter =>
              \A zip \in UnitKeys : Cardinality(ReportRows(zip)) = NullRowsOf(zip))
    /\ [][C25_ReportKept]_vars

(* at the end of a run the report names a unit that the filter dropped and a *)
(* unit that passed the filter and that the clip took away                   *)
C25_Witness ==
    /\ pc = "done"
    /\ \E k \in 1..Len(unassigned_df) :
          /\ Admitting(UnitGeometry(unassigned_df[k].ZIP_CODE)) = {}
          /\ unassigned_df[k].ZIP_CODE \notin UnitsLeft
    /\ \E k \in 1..Len(unassigned_df) :
          /\ Admitting(UnitGeometry(unassigned_df[k].ZIP_CODE)) # {}
          /\ unassigned_df[k].ZIP_CODE \notin UnitsLeft

-----------------------------------------------------------------------------
(* C19, C20 *)

(* run r is reading the i-th dataset from storage *)
Reading(r, i) == run_pc[r].at = "reading" /\ run_pc[r].k = i

(* run r has read the i-th dataset and has it *)
HasLoaded(r, i) ==
    \/ run_pc[r].at \in {"before", "reading"} /\ run_pc[r].k > i
    \/ host = "streamlit" /\ run_pc[r].at = "returned"

(* C19. Reference data is loaded at most once per process: each of the three *)
(* reference datasets is read from storage only on the first run that needs  *)
(* it; a run that comes after a run that has loaded a dataset reads nothing  *)
(* and gets the cached value; no reference file is downloaded twice.         *)
C19_LoadedAtMostOncePerProcess ==
    /\ \A i \in 1..Len(Datasets) :
          \A r, q \in Runs : (r # q /\ HasLoaded(q, i)) => ~Reading(r, i)
    /\ \A f \in Range(REFERENCE_FILES) : downloads[f] <= 1

(* C20. Concurrent first access to reference data is safe: of two runs that  *)
(* request a dataset not yet loaded only one loads it, the other waits or    *)
(* reads the cached result: no two runs are loading one dataset at a time.   *)
C20_OneLoadOnConcurrentFirstAccess ==
    \A i \in 1..Len(Datasets) :
        \A r, q \in Runs : (Reading(r, i) /\ Reading(q, i)) => r = q

-----------------------------------------------------------------------------
(* C21, C22, C23 and C26 to C29: the job submitted through S3 *)

(* what the claims call a configuration error of a form: a required field    *)
(* is blank, the workbook cannot be read, or no column has exactly the name  *)
(* given for the key or for the value                                        *)
ConfigurationError(f) ==
    \/ f.excel_file = NoFile
    \/ f.geog_col_label = ""
    \/ f.value_col_label = ""
    \/ ~f.excel_file.readable
    \/ f.geog_col_label \notin Columns
    \/ f.value_col_label \notin Columns

(* the handling of a click has ended and its page is still up *)
RunEnded == app_pc = "idle" /\ outcome # "none"

ResultPair == {result_key(object_key), unassigned_key(object_key)}

(* C21. Configuration errors stop the job before the pipeline: when a        *)
(* required field is blank, the workbook is unreadable or no column has      *)
(* exactly the given key or value name, app.py reports the error in the      *)
(* script run of the click, uploads nothing, and generate_map is not called. *)
C21_ConfigurationErrorsStopTheJob ==
    (script = "app.py" /\ submitted_by # "another client" /\ ConfigurationError(form)) =>
        /\ object_key = NoKey
        /\ ~invoked
        /\ RunEnded => (outcome = "configuration" /\ shown # <<>>)

(* C22. No run is left "still processing": when the handling of a click in   *)
(* app.py ends on a configuration error or on an error the worker reported,  *)
(* a single error message is on the page, processing is False, and the       *)
(* Generate button is enabled again.                                         *)
C22_NoRunLeftProcessing ==
    (script = "app.py" /\ RunEnded /\ outcome \in {"configuration", "worker"}) =>
        /\ Len(shown) = 1
        /\ ~processing
        /\ ~button_disabled

(* C23. A job-level failure is always recorded: when lambda_handler has      *)
(* ended for a job without having produced the two results, the error        *)
(* payload is under the results key derived from the job's upload key.       *)
C23_FailureAlwaysRecorded ==
    (lam_pc = "returned" /\ ~(ResultPair \subseteq bucket)) =>
        error_key(object_key) \in bucket

(* the ways the polling of a click in app.py may end, and the only step that *)
(* stores the image and the report                                           *)
C26_Ending ==
    script = "app.py" =>
    /\ (app_pc = "polling" /\ app_pc' # "polling") =>
          \/ /\ app_pc' = "broke"
             /\ error_s3_key(object_key) \in bucket
             /\ UNCHANGED <<png_bytes, csv_bytes>>
          \/ /\ app_pc' = "stored"
             /\ error_s3_key(object_key) \notin bucket
             /\ result_s3_key(object_key) \in bucket
             /\ unassigned_s3_key(object_key) \in bucket
             /\ png_bytes' = result_s3_key(object_key)
             /\ csv_bytes' = unassigned_s3_key(object_key)
          \/ /\ app_pc' = "timed out"
             /\ polls = timeout
             /\ UNCHANGED <<png_bytes, csv_bytes>>
    /\ (png_bytes' # png_bytes \/ csv_bytes' # csv_bytes) =>
          /\ app_pc = "polling"
          /\ app_pc' = "stored"
          /\ error_s3_key(object_key) \notin bucket
          /\ result_s3_key(object_key) \in bucket
          /\ unassigned_s3_key(object_key) \in bucket

(* C26. Polling in app.py: the loop makes at most 900 polls and ends in      *)
(* exactly one of three ways: the error payload was seen, both results were  *)
(* seen, or the 900 polls are used up; the image and the report go into the  *)
(* session state only in the second, in a poll that found both results and   *)
(* no error payload.                                                         *)
C26_PollingOutcome ==
    /\ [](polls <= timeout /\ elapsed <= timeout /\ (app_pc = "polling" => polls = elapsed))
    /\ [][C26_Ending]_vars

(* the writes of lambda_handler that went through, in order *)
Done == [i \in 1..Len(steps) |-> steps[i].op]
Failed == {i \in 1..Len(steps) : ~steps[i].ok}

(* the order of the three writes, the 200, and the upload left in place *)
C27_Order ==
    /\ \E n \in 0..3 : Done = SubSeq(<<"png", "csv", "delete">>, 1, n)
    /\ \A i \in Failed : i = Len(steps) /\ lam_pc = "returned" /\ status # "200"
    /\ status = "200" => (Len(steps) = 3 /\ Failed = {} /\ lam_pc = "returned")
    /\ status \in {"200", "400"} \/ lam_pc # "returned" => error_key(object_key) \notin bucket
    /\ lam_pc # "idle" =>
          (object_key \notin bucket <=> (Len(steps) = 3 /\ Failed = {}))

(* C27. Worker completion order: lambda_handler writes the PNG,             *)
(* then the CSV, then deletes the upload, and returns 200 only after all     *)
(* three; when a step raises no later step runs, the upload stays unless the *)
(* deletion went through, and the handler returns 500.                       *)
C27_CompletionOrder ==
    /\ C27_Order
    /\ lam_pc = "returned" => status \in {"200", "400", "500"}

(* C28. Success and error are exclusive per job: once lambda_handler has     *)
(* ended, the results prefix does not hold the result pair and an error      *)
(* payload of one job, and app.py reports no error for a job whose two       *)
(* results were produced.                                                    *)
C28_SuccessAndErrorExclusive ==
    /\ lam_pc = "returned" =>
          ~(ResultPair \subseteq bucket /\ error_key(object_key) \in bucket)
    /\ (RunEnded /\ outcome = "worker") => ~(ResultPair \subseteq bucket)

(* C29. Configuration round trip: for a submission of app.py the arguments   *)
(* lambda_handler builds from the metadata are the submitted ones (key and   *)
(* value column, title with blank as no title, auto-fill flag, palette in    *)
(* order, geography ZIP exactly for "By Zipcode"); and generate_map is not   *)
(* called for a submission whose metadata lacks one of the fields (a missing *)
(* title is taken as no title and is not counted here).                      *)
C29_ConfigurationRoundTrip ==
    /\ (invoked /\ submitted_by = "app.py") =>
          /\ cfg.geog_col = form.geog_col_label
          /\ cfg.value_col = form.value_col_label
          /\ cfg.map_title = (IF form.map_title = "" THEN None ELSE form.map_title)
          /\ cfg.auto_fill_unassigned = form.auto_assign_zipcodes
          /\ cfg.map_colors = form.selected_colors
          /\ (cfg.geog_type = "zip" <=> form.map_type = "By Zipcode")
    /\ invoked => (MetadataKeys \ {"map_title"}) \subseteq DOMAIN metadata

-----------------------------------------------------------------------------
(* C30: the worker thread of zip_map_streamlit_app.py *)

(* C30. The worker ends by setting error_event, or map_done_event and then   *)
(* conversion_event, so the main thread leaves both wait loops; and when     *)
(* error_event is set the main thread shows the worker's message and ends    *)
(* the run without raising: it reads no entry of result that the worker did  *)
(* not put there.                                                            *)
C30_WorkerErrorPath ==
    /\ [](thread_pc = "finished" =>
             (error_event \/ (map_done_event /\ conversion_event)))
    /\ [](conversion_event => map_done_event)
    /\ (main_pc = "stage 1") ~> (main_pc \notin {"stage 1", "stage 2"})
    /\ [](main_pc # "raised")
    /\ []((error_event /\ main_pc \in {"ended", "raised"}) =>
             (\E i \in 1..Len(page) : page[i] = error_message))

=============================================================================
